------------------------- MODULE Interrupts_proofs -------------------------
(***************************************************************************)
(* Proofs about module Interrupts: types, the acknowledgement of every     *)
(* interrupt, that no handler runs before what it needs is there, and that *)
(* the handler of the clock counts every tick once.                        *)
(***************************************************************************)
EXTENDS Interrupts, TLAPS

-----------------------------------------------------------------------------
\* Lemmas about the stack of activations.

LEMMA Started ==
  ASSUME NEW o \in {"pit_handler", "keyboard_handler", "rtc_handler",
                    "program"},
         NEW p \in {"in", "user"}
  PROVE  Start(o, p) \in Activation
BY ConstantsAssumption DEF Start, Activation, Slots

LEMMA StartedProgram ==
  ASSUME NEW p \in Slots, NEW q \in Slots
  PROVE  /\ Program(p, q) \in Activation
         /\ Program(p, q).op = "program" /\ Program(p, q).pc = "user"
BY DEF Program, Activation

\* An activation that goes on.
Moved(a, p) == [op |-> a.op, pc |-> p, loaded |-> a.loaded,
                slot |-> a.slot, parent |-> a.parent]

LEMMA Pushed ==
  ASSUME NEW s \in Seq(Activation), NEW a \in Activation
  PROVE  /\ Append(s, a) \in Seq(Activation)
         /\ Len(Append(s, a)) = Len(s) + 1
         /\ \A i \in 1 .. Len(s) : Append(s, a)[i] = s[i]
         /\ Append(s, a)[Len(s) + 1] = a
OBVIOUS

LEMMA Popped ==
  ASSUME NEW s \in Seq(Activation), NEW n \in 0 .. Len(s)
  PROVE  /\ SubSeq(s, 1, n) \in Seq(Activation)
         /\ Len(SubSeq(s, 1, n)) = n
         /\ \A i \in 1 .. n : SubSeq(s, 1, n)[i] = s[i]
OBVIOUS

LEMMA Replaced ==
  ASSUME NEW s \in Seq(Activation), Len(s) > 0, NEW a \in Activation
  PROVE  /\ [s EXCEPT ![Len(s)] = a] \in Seq(Activation)
         /\ Len([s EXCEPT ![Len(s)] = a]) = Len(s)
         /\ \A i \in 1 .. Len(s) - 1 : [s EXCEPT ![Len(s)] = a][i] = s[i]
         /\ [s EXCEPT ![Len(s)] = a][Len(s)] = a
OBVIOUS

LEMMA MovedTo ==
  ASSUME NEW a, NEW p
  PROVE  Moved(a, p).op = a.op /\ Moved(a, p).pc = p
BY DEF Moved

\* GoOn replaces the newest activation by one that differs in its pc.
LEMMA Continued ==
  ASSUME NEW s \in Seq(Activation), Len(s) > 0,
         NEW p \in {"in", "show", "switch", "load", "store",
                    "user", "gate", "call", "halt", "out"}
  PROVE  LET a == Moved(s[Len(s)], p)
         IN  /\ a \in Activation
             /\ [s EXCEPT ![Len(s)].pc = p] = [s EXCEPT ![Len(s)] = a]
<1>1. s[Len(s)] \in Activation
  OBVIOUS
<1>2. [s[Len(s)] EXCEPT !.pc = p] = Moved(s[Len(s)], p)
  BY <1>1 DEF Activation, Moved
<1>3. Moved(s[Len(s)], p) \in Activation
  BY <1>1 DEF Activation, Moved
<1> QED
  BY <1>2, <1>3

-----------------------------------------------------------------------------
\* Types.

LEMMA Handlers ==
  \A d \in Devices :
    Handler(d) \in {"pit_handler", "keyboard_handler", "rtc_handler", "program"}
BY DEF Devices, Handler, TIMER, KEYBOARD, CLOCK

LEMMA Steps == Len(Order) = 11
BY DEF Order

\* What the steps with a handler at the top of the stack know of it.
LEMMA TopTyped ==
  ASSUME TypeOK, NEW op, NEW pc, At(op, pc)
  PROVE  /\ stack \in Seq(Activation) /\ Len(stack) \in Nat /\ Len(stack) > 0
         /\ Top \in Activation
         /\ Top.op = op /\ Top.pc = pc
BY DEF TypeOK, At, Top

LEMMA GoOnTyped ==
  ASSUME TypeOK, Len(stack) > 0,
         NEW p \in {"in", "show", "switch", "load", "store",
                    "user", "gate", "call", "halt", "out"},
         GoOn(p)
  PROVE  stack' \in Seq(Activation)
<1> DEFINE a == Moved(stack[Len(stack)], p)
<1>1. stack \in Seq(Activation)
  BY DEF TypeOK
<1>2. a \in Activation /\ stack' = [stack EXCEPT ![Len(stack)] = a]
  BY <1>1, Continued DEF GoOn
<1> HIDE DEF a
<1> QED
  BY <1>1, <1>2, Replaced

LEMMA PopTyped ==
  ASSUME TypeOK, Len(stack) > 0, Pop
  PROVE  stack' \in Seq(Activation)
<1>1. stack \in Seq(Activation) /\ Len(stack) - 1 \in 0 .. Len(stack)
  BY DEF TypeOK
<1> QED
  BY <1>1, Popped DEF Pop

\* A program is started.
LEMMA RunsTyped ==
  ASSUME TypeOK, NEW t \in Consoles, NEW p \in Slots, Runs(p, t)
  PROVE  pid' \in Slots /\ latest_pid' \in [Consoles -> Slots]
BY DEF TypeOK, Runs

\* What a halt leaves.
LEMMA LeftTyped ==
  ASSUME TypeOK, NEW i \in Programs
  PROVE  /\ i \in 1 .. Len(stack) /\ stack[i] \in Activation
         /\ Left(i) \in 0 .. Len(stack) /\ Left(i) \in {i - 1, i - 2}
         /\ stack \in Seq(Activation) /\ Len(stack) \in Nat
<1>1. /\ i \in 1 .. Len(stack) /\ stack \in Seq(Activation)
      /\ Len(stack) \in Nat
  BY DEF TypeOK, Programs, Activations
<1> QED
  BY <1>1 DEF Left

\* TypeOK is inductive.
LEMMA TypeStep ==
  ASSUME TypeOK, Next
  PROVE  TypeOK'
<1> USE ConstantsAssumption DEF TypeOK, vars, pic, devices, clock, processes
<1>1. CASE TimerEdge
  BY <1>1 DEF TimerEdge, Raise, Devices
<1>2. CASE ClockEdge
  BY <1>2 DEF ClockEdge, Raise, Devices
<1>3. ASSUME NEW c \in {"char", "switch"}, KeyPress(c) PROVE TypeOK'
  BY <1>3 DEF KeyPress, Raise, Devices
<1>4. ASSUME NEW d \in Devices, Accept(d) PROVE TypeOK'
  <2>1. stack' \in Seq(Activation)
    BY <1>4, Handlers, Started, Pushed DEF Accept
  <2>2. isr' \subseteq Lines
    BY <1>4 DEF Accept, Path, Devices, Lines
  <2> QED
    BY <1>4, <2>1, <2>2 DEF Accept
<1>5. CASE Boot
  <2>1. /\ stack' \in Seq(Activation)
        /\ pid' \in Slots /\ latest_pid' \in [Consoles -> Slots]
    <3>1. CASE Order[boot + 1] = "shell"
      <4>1. PICK p \in Slots :
              Runs(p, cur_terminal) /\ stack' = <<Program(p, pid)>>
        BY <1>5, <3>1 DEF Boot
      <4>2. Program(p, pid) \in Activation
        BY StartedProgram
      <4>3. stack' \in Seq(Activation)
        BY <4>1, <4>2
      <4> QED
        BY <4>1, <4>3, RunsTyped
    <3>2. CASE Order[boot + 1] # "shell"
      BY <1>5, <3>2 DEF Boot
    <3> QED
      BY <3>1, <3>2
  <2>2. boot' \in 0 .. Len(Order)
    BY <1>5, Steps DEF Boot
  <2>3. enabled' \subseteq Lines
    BY <1>5 DEF Boot, Enable, Path, Devices, Lines
  <2>4. iflag' \in BOOLEAN /\ irqf' \in BOOLEAN
    BY <1>5 DEF Boot
  <2>5. /\ irr' \subseteq Devices /\ isr' \subseteq Lines
        /\ fresh' \subseteq Devices
    BY <1>5 DEF Boot
  <2> QED
    BY <1>5, <2>1, <2>2, <2>3, <2>4, <2>5 DEF Boot
<1>6. CASE PitHandler
  BY <1>6, PopTyped, TopTyped DEF PitHandler, Eoi
<1>7. CASE KeyRead
  BY <1>7, GoOnTyped, TopTyped DEF KeyRead, Eoi
<1>8. CASE KeyShow
  BY <1>8, PopTyped, TopTyped DEF KeyShow, Eoi
<1>9. ASSUME NEW t \in Consoles, KeySwitch(t) PROVE TypeOK'
  <2>1. stack' \in Seq(Activation)
    BY <1>9, PopTyped, TopTyped DEF KeySwitch
  <2>2. /\ pid' \in Slots /\ cur_terminal' \in Consoles
        /\ running' \subseteq Consoles
    BY <1>9 DEF KeySwitch
  <2> QED
    BY <1>9, <2>1, <2>2 DEF KeySwitch
<1>10. ASSUME NEW t \in Consoles, KeyShell(t) PROVE TypeOK'
  <2>1. PICK p \in Slots :
          Runs(p, t) /\ stack' = Append(stack, Program(p, latest_pid[t]))
    BY <1>10 DEF KeyShell
  <2>2. /\ stack' \in Seq(Activation)
        /\ pid' \in Slots /\ latest_pid' \in [Consoles -> Slots]
    BY <2>1, RunsTyped, StartedProgram, Pushed
  <2>3. split' \in BOOLEAN /\ running' \subseteq Consoles
    BY <1>10 DEF KeyShell
  <2> QED
    BY <1>10, <2>1, <2>2, <2>3 DEF KeyShell
<1>11. CASE ClockRead
  BY <1>11, GoOnTyped, TopTyped DEF ClockRead, Eoi
<1>12. CASE ClockLoad
  <2> DEFINE a == [Top EXCEPT !.pc = "store", !.loaded = virtual_counter]
  <2>1. stack \in Seq(Activation) /\ Len(stack) > 0 /\ Top \in Activation
    BY <1>12, TopTyped DEF ClockLoad
  <2>2. a \in Activation
    BY <2>1 DEF Activation
  <2>3. stack' = [stack EXCEPT ![Len(stack)] = a]
    BY <1>12 DEF ClockLoad
  <2>4. stack' \in Seq(Activation)
    BY <2>1, <2>2, <2>3, Replaced
  <2> QED
    BY <1>12, <2>4 DEF ClockLoad
<1>13. CASE ClockStore
  <2>1. Top.loaded \in Nat
    BY <1>13, TopTyped DEF ClockStore, Activation
  <2>2. stack' \in Seq(Activation)
    BY <1>13, PopTyped, TopTyped DEF ClockStore
  <2> QED
    BY <1>13, <2>1, <2>2 DEF ClockStore, Counted
<1>14. CASE Gate
  BY <1>14, GoOnTyped, TopTyped DEF Gate
<1>15. CASE Call
  BY <1>15, GoOnTyped, TopTyped DEF Call
<1>16. CASE InvalidCall
  BY <1>16, GoOnTyped, TopTyped DEF InvalidCall
<1>17. CASE Return
  BY <1>17, GoOnTyped, TopTyped DEF Return
<1>18. CASE User
  BY <1>18, GoOnTyped, TopTyped DEF User
<1>19. CASE Consume
  BY <1>19 DEF Consume
<1>20. CASE Exit
  <2>1. PICK i \in Programs :
          /\ stack' = SubSeq(stack, 1, Left(i))
          /\ pid' = stack[i].parent
          /\ latest_pid' = [latest_pid EXCEPT ![cur_terminal] = pid']
          /\ astray' = ~(i = Len(stack) /\ Resumes(Left(i), pid'))
    BY <1>20 DEF Exit
  <2>2. stack' \in Seq(Activation)
    BY <2>1, LeftTyped, Popped
  <2>3. pid' \in Slots
    BY <2>1, LeftTyped DEF Activation
  <2>4. latest_pid' \in [Consoles -> Slots] /\ astray' \in BOOLEAN
    BY <2>1, <2>3
  <2> QED
    BY <1>20, <2>2, <2>3, <2>4 DEF Exit
<1>21. CASE Compute
  BY <1>21 DEF Compute
<1>22. CASE Execute
  <2>1. PICK p \in Slots :
          /\ Runs(p, cur_terminal)
          /\ stack' = Append(stack, Program(p, pid))
    BY <1>22 DEF Execute
  <2>2. /\ stack' \in Seq(Activation)
        /\ pid' \in Slots /\ latest_pid' \in [Consoles -> Slots]
    BY <2>1, RunsTyped, StartedProgram, Pushed
  <2> QED
    BY <1>22, <2>1, <2>2 DEF Execute
<1>23. CASE ExecuteData
  BY <1>23 DEF ExecuteData
<1>24. CASE HaltBase
  BY <1>24, GoOnTyped, TopTyped DEF HaltBase
<1>25. CASE ExitNowhere
  BY <1>25 DEF ExitNowhere
<1>26. CASE Astray
  BY <1>26 DEF Astray
<1> QED
  BY <1>1, <1>2, <1>3, <1>4, <1>5, <1>6, <1>7, <1>8, <1>9, <1>10, <1>11,
     <1>12, <1>13, <1>14, <1>15, <1>16, <1>17, <1>18, <1>19, <1>20, <1>21,
     <1>22, <1>23, <1>24, <1>25, <1>26
  DEF Next, KernelStep, HandlerStep

LEMMA InitTyped == ASSUME Init PROVE TypeOK
<1>1. stack \in Seq(Activation)
  <2>1. <<>> \in Seq(Activation)
    OBVIOUS
  <2> QED
    BY <2>1, Zenon DEF Init
<1>2. boot \in 0 .. Len(Order) /\ 0 \in Consoles /\ 0 \in Slots
  BY ConstantsAssumption, Steps DEF Init, Consoles, Slots
<1> QED
  BY <1>1, <1>2 DEF Init, TypeOK

\* The type invariant, whatever the constants are.
THEOREM Typed == Spec => []TypeOK
<1>1. Init => TypeOK
  BY InitTyped
<1>2. TypeOK /\ [Next]_vars => TypeOK'
  BY TypeStep DEF TypeOK, vars, pic, devices, clock, processes
<1> QED
  BY <1>1, <1>2, PTL DEF Spec

-----------------------------------------------------------------------------
\* Acknowledgements.  Acked says of a stack and a set of lines what
\* Acknowledged says of stack and isr.

Acked(s, lines) ==
  /\ lines = UNION {InService(s[i]) : i \in 1 .. Len(s)}
  /\ \A j \in 1 .. Len(s) : \A i \in 1 .. j - 1 :
       \A k \in InService(s[i]), l \in InService(s[j]) : Rank(l) < Rank(k)

LEMMA Ranks ==
  ASSUME NEW a
  PROVE  InService(a) \subseteq Lines /\ \A l \in Lines : Rank(l) \in Nat
BY DEF InService, Lines, Devices, Rank, TIMER, KEYBOARD, CASCADE, CLOCK

LEMMA AckedPush ==
  ASSUME NEW s \in Seq(Activation), NEW lines, Acked(s, lines),
         NEW a \in Activation,
         \A k \in lines, l \in InService(a) : Rank(l) < Rank(k)
  PROVE  Acked(Append(s, a), lines \cup InService(a))
<1> DEFINE t == Append(s, a)
<1>1. /\ Len(t) = Len(s) + 1 /\ Len(s) \in Nat
      /\ \A i \in 1 .. Len(s) : t[i] = s[i]
      /\ t[Len(s) + 1] = a
  BY Pushed
<1> HIDE DEF t
<1>2. lines \cup InService(a) = UNION {InService(t[i]) : i \in 1 .. Len(t)}
  BY <1>1 DEF Acked
<1>3. ASSUME NEW j \in 1 .. Len(t), NEW i \in 1 .. j - 1,
             NEW k \in InService(t[i]), NEW l \in InService(t[j])
      PROVE  Rank(l) < Rank(k)
  <2>1. i \in 1 .. Len(s) /\ t[i] = s[i] /\ k \in lines
    BY <1>1, <1>3 DEF Acked
  <2>2. CASE j = Len(s) + 1
    BY <1>1, <1>3, <2>1, <2>2
  <2>3. CASE j \in 1 .. Len(s)
    BY <1>1, <1>3, <2>1, <2>3 DEF Acked
  <2> QED
    BY <1>1, <2>2, <2>3
<1> QED
  BY <1>2, <1>3 DEF Acked, t

\* The line of the newest activation is in service for no other one.
LEMMA AckedTop ==
  ASSUME NEW s \in Seq(Activation), Len(s) > 0, NEW lines, Acked(s, lines)
  PROVE  lines \ InService(s[Len(s)]) =
           UNION {InService(s[i]) : i \in 1 .. Len(s) - 1}
<1>1. Len(s) \in Nat
  OBVIOUS
<1>2. ASSUME NEW i \in 1 .. Len(s) - 1, NEW l \in InService(s[i]),
             l \in InService(s[Len(s)])
      PROVE  FALSE
  <2>1. Rank(l) < Rank(l)
    BY <1>1, <1>2 DEF Acked
  <2> QED
    BY <2>1, Ranks
<1> QED
  BY <1>1, <1>2 DEF Acked

LEMMA AckedPop ==
  ASSUME NEW s \in Seq(Activation), Len(s) > 0, NEW lines, Acked(s, lines)
  PROVE  Acked(SubSeq(s, 1, Len(s) - 1), lines \ InService(s[Len(s)]))
<1> DEFINE t == SubSeq(s, 1, Len(s) - 1)
<1>1. /\ Len(t) = Len(s) - 1 /\ Len(s) \in Nat
      /\ \A i \in 1 .. Len(s) - 1 : t[i] = s[i]
  <2>1. Len(s) \in Nat /\ Len(s) - 1 \in 0 .. Len(s)
    OBVIOUS
  <2> QED
    BY <2>1, Popped
<1> HIDE DEF t
<1>2. lines \ InService(s[Len(s)]) =
        UNION {InService(t[i]) : i \in 1 .. Len(t)}
  BY <1>1, AckedTop
<1>3. \A j \in 1 .. Len(t) : \A i \in 1 .. j - 1 :
        \A k \in InService(t[i]), l \in InService(t[j]) : Rank(l) < Rank(k)
  BY <1>1 DEF Acked
<1> QED
  BY <1>2, <1>3 DEF Acked, t

\* The newest activation goes on, and has no more to acknowledge than before.
LEMMA AckedReplace ==
  ASSUME NEW s \in Seq(Activation), Len(s) > 0, NEW lines, Acked(s, lines),
         NEW a \in Activation, InService(a) \subseteq InService(s[Len(s)])
  PROVE  Acked([s EXCEPT ![Len(s)] = a],
               (lines \ InService(s[Len(s)])) \cup InService(a))
<1> DEFINE t == [s EXCEPT ![Len(s)] = a]
<1>1. /\ Len(t) = Len(s) /\ Len(s) \in Nat
      /\ \A i \in 1 .. Len(s) - 1 : t[i] = s[i]
      /\ t[Len(s)] = a
  BY Replaced
<1> HIDE DEF t
<1>2. (lines \ InService(s[Len(s)])) \cup InService(a) =
        UNION {InService(t[i]) : i \in 1 .. Len(t)}
  <2>1. lines \ InService(s[Len(s)]) =
          UNION {InService(t[i]) : i \in 1 .. Len(s) - 1}
    BY <1>1, AckedTop
  <2>2. 1 .. Len(t) = (1 .. Len(s) - 1) \cup {Len(s)}
    BY <1>1
  <2> QED
    BY <1>1, <2>1, <2>2
<1>3. ASSUME NEW j \in 1 .. Len(t), NEW i \in 1 .. j - 1,
             NEW k \in InService(t[i]), NEW l \in InService(t[j])
      PROVE  Rank(l) < Rank(k)
  <2>1. /\ i \in 1 .. Len(s) - 1 /\ k \in InService(s[i])
        /\ j \in 1 .. Len(s) /\ l \in InService(s[j])
    BY <1>1, <1>3
  <2> QED
    BY <1>1, <2>1 DEF Acked
<1> QED
  BY <1>2, <1>3 DEF Acked, t

\* The newest activations go, which have nothing to acknowledge.
LEMMA AckedDrop ==
  ASSUME NEW s \in Seq(Activation), NEW n \in 0 .. Len(s),
         NEW lines, Acked(s, lines),
         \A i \in n + 1 .. Len(s) : InService(s[i]) = {}
  PROVE  Acked(SubSeq(s, 1, n), lines)
<1> DEFINE t == SubSeq(s, 1, n)
<1>1. /\ Len(t) = n /\ Len(s) \in Nat
      /\ \A i \in 1 .. n : t[i] = s[i]
  BY Popped
<1> HIDE DEF t
<1>2. UNION {InService(t[i]) : i \in 1 .. Len(t)} \subseteq lines
  BY <1>1 DEF Acked
<1>3. ASSUME NEW l \in lines
      PROVE  l \in UNION {InService(t[i]) : i \in 1 .. Len(t)}
  <2>1. PICK i \in 1 .. Len(s) : l \in InService(s[i])
    BY DEF Acked
  <2>2. i \notin n + 1 .. Len(s)
    BY <2>1
  <2>3. i \in 1 .. n
    BY <1>1, <2>2
  <2> QED
    BY <1>1, <2>1, <2>3
<1>4. \A j \in 1 .. Len(t) : \A i \in 1 .. j - 1 :
        \A k \in InService(t[i]), l \in InService(t[j]) : Rank(l) < Rank(k)
  BY <1>1 DEF Acked
<1> QED
  BY <1>2, <1>3, <1>4 DEF Acked, t

\* A program that a keyboard handler started runs on top of the switch to its
\* terminal: what its halt leaves with it.
Shape ==
  \A i \in 2 .. Len(stack) :
    stack[i].op = "program" /\ stack[i - 1].op = "keyboard_handler" =>
      stack[i - 1].pc = "switch"

AckInv == TypeOK /\ Acknowledged /\ Shape

LEMMA AckPop ==
  ASSUME AckInv, ~astray, Len(stack) > 0, Pop, isr' = isr \ InService(Top)
  PROVE  Acknowledged' /\ Shape'
<1>1. /\ stack \in Seq(Activation) /\ Len(stack) \in Nat
      /\ Len(stack) - 1 \in 0 .. Len(stack)
  BY DEF AckInv, TypeOK
<1>2. Acked(stack, isr)
  BY DEF AckInv, Acknowledged, Acked
<1>3. Acked(stack', isr')
  BY <1>1, <1>2, AckedPop DEF Pop, Top
<1>4. /\ Len(stack') = Len(stack) - 1
      /\ \A i \in 1 .. Len(stack') : stack'[i] = stack[i]
  BY <1>1, Popped DEF Pop
<1>5. Shape'
  BY <1>1, <1>4 DEF AckInv, Shape
<1> QED
  BY <1>3, <1>5 DEF Acknowledged, Acked

LEMMA AckGoOn ==
  ASSUME AckInv, ~astray, Len(stack) > 0,
         NEW p \in {"in", "show", "switch", "load", "store",
                    "user", "gate", "call", "halt", "out"},
         GoOn(p),
         NEW rest, rest = InService(Moved(Top, p)),
         rest \subseteq InService(Top),
         isr' = (isr \ InService(Top)) \cup rest
  PROVE  Acknowledged' /\ Shape'
<1> DEFINE a == Moved(Top, p)
<1>1. stack \in Seq(Activation) /\ Len(stack) \in Nat
  BY DEF AckInv, TypeOK
<1>2. a \in Activation /\ stack' = [stack EXCEPT ![Len(stack)] = a]
  BY <1>1, Continued DEF GoOn, Top
<1>3. a.op = Top.op /\ InService(a) = rest
  BY MovedTo
<1> HIDE DEF a
<1>4. Acked(stack, isr)
  BY DEF AckInv, Acknowledged, Acked
<1>5. Acked(stack', isr')
  BY <1>1, <1>2, <1>3, <1>4, AckedReplace DEF Top
<1>6. /\ Len(stack') = Len(stack)
      /\ \A i \in 1 .. Len(stack) - 1 : stack'[i] = stack[i]
      /\ stack'[Len(stack)].op = stack[Len(stack)].op
  BY <1>1, <1>2, <1>3, Replaced DEF Top
<1>7. Shape'
  BY <1>1, <1>6 DEF AckInv, Shape
<1> QED
  BY <1>5, <1>7 DEF Acknowledged, Acked

\* A step of an activation that has nothing to acknowledge, or that does not
\* acknowledge yet.
LEMMA AckSame ==
  ASSUME AckInv, ~astray, Len(stack) > 0,
         NEW p \in {"in", "show", "switch", "load", "store",
                    "user", "gate", "call", "halt", "out"},
         GoOn(p),
         InService(Moved(Top, p)) = InService(Top),
         isr' = isr
  PROVE  Acknowledged' /\ Shape'
<1>1. InService(Top) \subseteq isr
  BY DEF AckInv, TypeOK, Acknowledged, Top
<1>2. isr' = (isr \ InService(Top)) \cup InService(Top)
  BY <1>1
<1> QED
  BY <1>2, AckGoOn

\* A program is started, by a handler or by another program.
LEMMA AckProgram ==
  ASSUME AckInv, ~astray, NEW p \in Slots, NEW q \in Slots,
         stack' = Append(stack, Program(p, q)), isr' = isr,
         Len(stack) > 0,
         Top.op = "keyboard_handler" => Top.pc = "switch"
  PROVE  Acknowledged' /\ Shape'
<1> DEFINE a == Program(p, q)
<1>1. a \in Activation /\ a.op = "program"
  BY StartedProgram
<1>2. stack' = Append(stack, a)
  OBVIOUS
<1> HIDE DEF a
<1>3. InService(a) = {}
  BY <1>1 DEF InService
<1>4. isr' = isr \cup InService(a)
  BY <1>3
<1>5. Acked(stack, isr) /\ stack \in Seq(Activation) /\ Len(stack) \in Nat
  BY DEF AckInv, TypeOK, Acknowledged, Acked
<1>6. Acked(stack', isr')
  BY <1>1, <1>2, <1>3, <1>4, <1>5, AckedPush
<1>7. Shape'
  BY <1>1, <1>2, <1>5, Pushed DEF AckInv, Shape, Top
<1> QED
  BY <1>6, <1>7 DEF Acknowledged, Acked

LEMMA AckStep ==
  ASSUME AckInv, Next
  PROVE  Acknowledged' /\ Shape'
<1> USE DEF pic, devices, clock, processes
<1>0. /\ TypeOK /\ Acknowledged /\ Shape
      /\ stack \in Seq(Activation) /\ Len(stack) \in Nat
  BY DEF AckInv, TypeOK
<1>1. ASSUME stack' = stack, isr' = isr, astray => astray'
      PROVE  Acknowledged' /\ Shape'
  BY <1>0, <1>1 DEF Acknowledged, Shape
<1>2. CASE \/ TimerEdge \/ ClockEdge \/ Consume \/ Compute
           \/ ExecuteData \/ ExitNowhere \/ Astray
  BY <1>1, <1>2 DEF TimerEdge, ClockEdge, Consume, Compute, ExecuteData,
                    ExitNowhere, Astray, vars
<1>3. ASSUME NEW c \in {"char", "switch"}, KeyPress(c)
      PROVE  Acknowledged' /\ Shape'
  BY <1>1, <1>3 DEF KeyPress
<1>4. ASSUME NEW d \in Devices, Accept(d) PROVE Acknowledged' /\ Shape'
  <2> DEFINE a == Start(Handler(d), "in")
  <2>1. a \in Activation /\ a.op # "program"
    BY Handlers, Started DEF Start, Handler, Devices, TIMER, KEYBOARD, CLOCK
  <2>2. InService(a) = Path(d)
    BY DEF InService, Start, Handler, Path, Devices,
           TIMER, KEYBOARD, CLOCK, CASCADE
  <2>3. \A k \in isr, l \in Path(d) : Rank(l) < Rank(k)
    BY <1>4 DEF Accept, Asserted, Deliverable, Path, Rank, Devices,
                TIMER, KEYBOARD, CLOCK, CASCADE
  <2>4. stack' = Append(stack, a) /\ isr' = isr \cup Path(d)
    BY <1>4 DEF Accept
  <2> HIDE DEF a
  <2>5. Acked(stack, isr)
    BY <1>0, <1>4 DEF Accept, Acknowledged, Acked
  <2>6. Acked(stack', isr')
    BY <1>0, <2>1, <2>2, <2>3, <2>4, <2>5, AckedPush
  <2>7. Shape'
    BY <1>0, <2>1, <2>4, Pushed DEF Shape
  <2> QED
    BY <2>6, <2>7 DEF Acknowledged, Acked
<1>5. CASE Boot
  <2>1. isr = {}
    BY <1>0, <1>5 DEF Boot, Undisturbed, Acknowledged
  <2>2. isr' = {}
    BY <1>5, <2>1 DEF Boot
  <2>3. CASE stack' = <<>>
    BY <2>2, <2>3 DEF Acknowledged, Shape
  <2>4. ASSUME NEW p \in Slots, stack' = <<Program(p, pid)>>
        PROVE  Acknowledged' /\ Shape'
    <3>1. Len(stack') = 1 /\ InService(stack'[1]) = {}
      BY <2>4 DEF Program, InService
    <3> QED
      BY <2>2, <3>1 DEF Acknowledged, Shape
  <2> QED
    BY <1>5, <2>3, <2>4 DEF Boot
<1>6. CASE PitHandler
  <2>1. InService(Top) = {TIMER} /\ Len(stack) > 0
    BY <1>0, <1>6, TopTyped DEF PitHandler, InService
  <2>2. isr' = isr \ InService(Top)
    BY <1>6, <2>1 DEF PitHandler, Eoi, Path, TIMER, CLOCK
  <2> QED
    BY <1>6, <2>1, <2>2, AckPop DEF PitHandler, At, Undisturbed
<1>7. CASE KeyRead
  <2>1. InService(Top) = {KEYBOARD} /\ Len(stack) > 0
        /\ Top.op = "keyboard_handler"
    BY <1>0, <1>7, TopTyped DEF KeyRead, InService
  <2>2. CASE port = "switch"
    <3>1. InService(Moved(Top, "switch")) = {}
      BY <2>1, MovedTo DEF InService
    <3>2. isr' = (isr \ InService(Top)) \cup {}
      BY <1>7, <2>1, <2>2 DEF KeyRead, Eoi, Path, KEYBOARD, CLOCK
    <3> QED
      BY <1>7, <2>1, <2>2, <3>1, <3>2, AckGoOn, MovedTo DEF KeyRead, At, Undisturbed
  <2>3. CASE port # "switch"
    <3>1. InService(Moved(Top, "show")) = InService(Top)
      BY <2>1, MovedTo DEF InService
    <3> QED
      BY <1>7, <2>1, <2>3, <3>1, AckSame DEF KeyRead, At, Undisturbed
  <2> QED
    BY <2>2, <2>3
<1>8. CASE KeyShow
  <2>1. InService(Top) = {KEYBOARD} /\ Len(stack) > 0
    BY <1>0, <1>8, TopTyped DEF KeyShow, InService
  <2>2. isr' = isr \ InService(Top)
    BY <1>8, <2>1 DEF KeyShow, Eoi, Path, KEYBOARD, CLOCK
  <2> QED
    BY <1>8, <2>1, <2>2, AckPop DEF KeyShow, At, Undisturbed
<1>9. ASSUME NEW t \in Consoles, KeySwitch(t) PROVE Acknowledged' /\ Shape'
  <2>1. InService(Top) = {} /\ Len(stack) > 0
    BY <1>0, <1>9, TopTyped DEF KeySwitch, InService
  <2> QED
    BY <1>9, <2>1, AckPop DEF KeySwitch, At, Undisturbed
<1>10. ASSUME NEW t \in Consoles, KeyShell(t) PROVE Acknowledged' /\ Shape'
  <2>1. PICK p \in Slots :
          Runs(p, t) /\ stack' = Append(stack, Program(p, latest_pid[t]))
    BY <1>10 DEF KeyShell
  <2>2. /\ Len(stack) > 0 /\ Top.pc = "switch" /\ ~astray
        /\ isr' = isr /\ latest_pid[t] \in Slots
    BY <1>0, <1>10, TopTyped DEF KeyShell, At, Undisturbed, TypeOK
  <2> QED
    BY <2>1, <2>2, AckProgram
<1>11. CASE ClockRead
  <2>1. InService(Top) = {CASCADE, CLOCK} /\ Len(stack) > 0
        /\ Top.op = "rtc_handler"
    BY <1>0, <1>11, TopTyped DEF ClockRead, InService
  <2>2. InService(Moved(Top, "load")) = {}
    BY <2>1, MovedTo DEF InService
  <2>3. isr' = (isr \ InService(Top)) \cup {}
    BY <1>11, <2>1 DEF ClockRead, Eoi, Path
  <2> QED
    BY <1>11, <2>1, <2>2, <2>3, AckGoOn DEF ClockRead, At, Undisturbed
<1>12. CASE ClockLoad
  <2> DEFINE a == [Top EXCEPT !.pc = "store", !.loaded = virtual_counter]
  <2>1. /\ Len(stack) > 0 /\ Top \in Activation
        /\ Top.op = "rtc_handler" /\ Top.pc = "load"
    BY <1>0, <1>12, TopTyped DEF ClockLoad
  <2>2. a \in Activation /\ a.op = "rtc_handler" /\ a.pc = "store"
    BY <1>0, <2>1 DEF Activation, TypeOK
  <2>3. stack' = [stack EXCEPT ![Len(stack)] = a] /\ isr' = isr
    BY <1>12 DEF ClockLoad
  <2> HIDE DEF a
  <2>4. InService(a) = {} /\ InService(stack[Len(stack)]) = {}
    BY <2>1, <2>2 DEF InService, Top
  <2>5. Acked(stack, isr)
    BY <1>0, <1>12 DEF ClockLoad, At, Undisturbed, Acknowledged, Acked
  <2>6. isr' = (isr \ InService(stack[Len(stack)])) \cup InService(a)
    BY <2>3, <2>4
  <2>7. Acked(stack', isr')
    BY <1>0, <2>1, <2>2, <2>3, <2>4, <2>5, <2>6, AckedReplace
  <2>8. /\ Len(stack') = Len(stack)
        /\ \A i \in 1 .. Len(stack) - 1 : stack'[i] = stack[i]
        /\ stack'[Len(stack)].op = "rtc_handler"
    BY <1>0, <2>1, <2>2, <2>3, Replaced
  <2>9. Shape'
    BY <1>0, <2>8 DEF Shape
  <2> QED
    BY <2>7, <2>9 DEF Acknowledged, Acked
<1>13. CASE ClockStore
  <2>1. InService(Top) = {} /\ Len(stack) > 0
    BY <1>0, <1>13, TopTyped DEF ClockStore, InService
  <2> QED
    BY <1>13, <2>1, AckPop DEF ClockStore, At, Undisturbed
<1>14. CASE Gate \/ Call \/ InvalidCall \/ Return \/ User \/ HaltBase
  <2>1. Len(stack) > 0 /\ Top.op = "program" /\ ~astray
    BY <1>0, <1>14, TopTyped
    DEF Gate, Call, InvalidCall, Return, User, HaltBase, At, Undisturbed
  <2>2. \E p \in {"user", "gate", "call", "halt", "out"} : GoOn(p)
    BY <1>14 DEF Gate, Call, InvalidCall, Return, User, HaltBase
  <2>3. isr' = isr
    BY <1>14 DEF Gate, Call, InvalidCall, Return, User, HaltBase
  <2>4. PICK p \in {"user", "gate", "call", "halt", "out"} : GoOn(p)
    BY <2>2
  <2>5. InService(Moved(Top, p)) = InService(Top)
    BY <2>1, MovedTo DEF InService
  <2> QED
    BY <2>1, <2>3, <2>4, <2>5, AckSame
<1>15. CASE Execute
  <2>1. PICK p \in Slots :
          /\ Runs(p, cur_terminal)
          /\ stack' = Append(stack, Program(p, pid))
    BY <1>15 DEF Execute
  <2>2. /\ Len(stack) > 0 /\ Top.op = "program" /\ ~astray
        /\ isr' = isr /\ pid \in Slots
    BY <1>0, <1>15, TopTyped DEF Execute, At, Undisturbed, TypeOK
  <2> QED
    BY <2>1, <2>2, AckProgram
<1>16. CASE Exit
  <2>1. PICK i \in Programs :
          /\ stack' = SubSeq(stack, 1, Left(i))
          /\ astray' = ~(i = Len(stack) /\ Resumes(Left(i), pid'))
    BY <1>16 DEF Exit
  <2> DEFINE n == Left(i)
  <2>2. /\ n \in 0 .. Len(stack) /\ i \in 1 .. Len(stack)
        /\ stack[i].op = "program"
    BY <1>0, LeftTyped DEF Programs, Activations
  <2>3. stack' = SubSeq(stack, 1, n) /\ (~astray' => i = Len(stack))
    BY <2>1
  <2>4. ASSUME i = Len(stack)
        PROVE  \A j \in n + 1 .. Len(stack) : InService(stack[j]) = {}
    <3>1. InService(stack[i]) = {}
      BY <2>2 DEF InService
    <3>2. CASE n = i - 1
      BY <1>0, <2>2, <2>4, <3>1, <3>2
    <3>3. CASE n # i - 1
      <4>1. /\ i > 1 /\ n = i - 2
            /\ stack[i - 1].op = "keyboard_handler"
        BY <3>3 DEF Left
      <4>2. stack[i - 1].pc = "switch"
        BY <1>0, <2>2, <4>1 DEF Shape
      <4>3. InService(stack[i - 1]) = {}
        BY <4>1, <4>2 DEF InService
      <4> QED
        BY <1>0, <2>2, <2>4, <3>1, <4>1, <4>3
    <3> QED
      BY <3>2, <3>3
  <2> HIDE DEF n
  <2>5. /\ Len(stack') = n
        /\ \A j \in 1 .. n : stack'[j] = stack[j]
    BY <1>0, <2>2, <2>3, Popped
  <2>6. isr' = isr /\ ~astray
    BY <1>16 DEF Exit, At, Undisturbed
  <2>7. ASSUME ~astray' PROVE Acked(stack', isr')
    <3>1. Acked(stack, isr)
      BY <1>0, <2>6 DEF Acknowledged, Acked
    <3> QED
      BY <1>0, <2>2, <2>3, <2>4, <2>6, <2>7, <3>1, AckedDrop
  <2>8. Shape'
    BY <1>0, <2>2, <2>5 DEF Shape
  <2> QED
    BY <2>7, <2>8 DEF Acknowledged, Acked
<1> QED
  BY <1>2, <1>3, <1>4, <1>5, <1>6, <1>7, <1>8, <1>9, <1>10, <1>11, <1>12,
     <1>13, <1>14, <1>15, <1>16
  DEF Next, KernelStep, HandlerStep

\* Every line in service belongs to one handler that will acknowledge it, and
\* is interrupted until then only by a line of higher priority.
THEOREM Acknowledges == Spec => []Acknowledged
<1>1. Init => AckInv
  <2>1. Init => TypeOK
    BY InitTyped
  <2>2. Init => Acknowledged /\ Shape
    BY DEF Init, Acknowledged, Shape
  <2> QED
    BY <2>1, <2>2 DEF AckInv
<1>2. AckInv /\ [Next]_vars => AckInv'
  <2> SUFFICES ASSUME AckInv, [Next]_vars PROVE AckInv'
    OBVIOUS
  <2>1. CASE Next
    BY <2>1, TypeStep, AckStep DEF AckInv
  <2>2. CASE UNCHANGED vars
    BY <2>2 DEF AckInv, TypeOK, Acknowledged, Shape, vars, pic, devices, clock, processes
  <2> QED
    BY <2>1, <2>2
<1>3. AckInv => Acknowledged
  BY DEF AckInv
<1> QED
  BY <1>1, <1>2, <1>3, PTL DEF Spec

-----------------------------------------------------------------------------
\* Initialisation.

\* When the line of a device is enabled its handler has what it needs, and
\* Alt+Fn waits for the base shell.
Armed ==
  /\ TIMER \in enabled => Done("timer")
  /\ KEYBOARD \in enabled => Done("keyboard")
  /\ CLOCK \in enabled => Done("chip")
  /\ port = "switch" => Done("shell")

ReadyInv == TypeOK /\ Ready /\ Armed

\* The places in Order.
LEMMA Places ==
  ASSUME NEW b \in 0 .. 11
  PROVE  /\ (\E i \in 1 .. b : Order[i] = "idt") <=> b >= 1
         /\ (\E i \in 1 .. b : Order[i] = "pic") <=> b >= 2
         /\ (\E i \in 1 .. b : Order[i] = "files") <=> b >= 3
         /\ (\E i \in 1 .. b : Order[i] = "chip") <=> b >= 4
         /\ (\E i \in 1 .. b : Order[i] = "timer") <=> b >= 6
         /\ (\E i \in 1 .. b : Order[i] = "keyboard") <=> b >= 7
         /\ (\E i \in 1 .. b : Order[i] = "paging") <=> b >= 9
         /\ (\E i \in 1 .. b : Order[i] = "shell") <=> b >= 11
BY DEF Order

LEMMA DoneAt ==
  ASSUME boot \in 0 .. 11
  PROVE  /\ Done("idt") <=> boot >= 1
         /\ Done("pic") <=> boot >= 2
         /\ Done("files") <=> boot >= 3
         /\ Done("chip") <=> boot >= 4
         /\ Done("timer") <=> boot >= 6
         /\ Done("keyboard") <=> boot >= 7
         /\ Done("paging") <=> boot >= 9
         /\ Done("shell") <=> boot >= 11
BY Places DEF Done

LEMMA DoneAtNext ==
  ASSUME boot' \in 0 .. 11
  PROVE  /\ Done("idt")' <=> boot' >= 1
         /\ Done("pic")' <=> boot' >= 2
         /\ Done("files")' <=> boot' >= 3
         /\ Done("chip")' <=> boot' >= 4
         /\ Done("timer")' <=> boot' >= 6
         /\ Done("keyboard")' <=> boot' >= 7
         /\ Done("paging")' <=> boot' >= 9
         /\ Done("shell")' <=> boot' >= 11
BY Places DEF Done

\* A step that starts no activation, and after which the newest needs no more.
LEMMA ReadyKeep ==
  ASSUME Ready, boot' = boot,
         \A i \in 1 .. Len(stack') :
           i \in 1 .. Len(stack) /\ Needs(stack'[i]) \subseteq Needs(stack[i])
  PROVE  Ready'
BY DEF Ready, Done

LEMMA ReadyPush ==
  ASSUME ReadyInv, boot' = boot, NEW a \in Activation,
         stack' = Append(stack, a), \A s \in Needs(a) : Done(s)
  PROVE  Ready'
<1>1. stack \in Seq(Activation) /\ Len(stack) \in Nat
  BY DEF ReadyInv, TypeOK
<1>2. /\ Len(stack') = Len(stack) + 1
      /\ \A i \in 1 .. Len(stack) : stack'[i] = stack[i]
      /\ stack'[Len(stack) + 1] = a
  BY <1>1, Pushed
<1>3. ASSUME NEW i \in 1 .. Len(stack'), NEW s \in Needs(stack'[i])
      PROVE  Done(s)
  <2>1. CASE i \in 1 .. Len(stack)
    <3>1. s \in Needs(stack[i])
      BY <1>2, <1>3, <2>1
    <3> QED
      BY <2>1, <3>1 DEF ReadyInv, Ready
  <2>2. CASE i = Len(stack) + 1
    <3>1. s \in Needs(a)
      BY <1>2, <1>3, <2>2
    <3> QED
      BY <3>1
  <2> QED
    BY <1>1, <1>2, <2>1, <2>2
<1> QED
  BY <1>3 DEF Ready, Done

LEMMA ReadyPop ==
  ASSUME ReadyInv, boot' = boot, NEW n \in 0 .. Len(stack),
         stack' = SubSeq(stack, 1, n)
  PROVE  Ready'
<1>1. /\ Len(stack') = n /\ Len(stack) \in Nat
      /\ \A i \in 1 .. n : stack'[i] = stack[i]
  BY Popped DEF ReadyInv, TypeOK
<1> QED
  BY <1>1, ReadyKeep DEF ReadyInv

LEMMA ReadyReplace ==
  ASSUME ReadyInv, boot' = boot, Len(stack) > 0, NEW a \in Activation,
         stack' = [stack EXCEPT ![Len(stack)] = a],
         \A s \in Needs(a) : Done(s)
  PROVE  Ready'
<1>1. stack \in Seq(Activation) /\ Len(stack) \in Nat
  BY DEF ReadyInv, TypeOK
<1>2. /\ Len(stack') = Len(stack)
      /\ \A i \in 1 .. Len(stack) - 1 : stack'[i] = stack[i]
      /\ stack'[Len(stack)] = a
  BY <1>1, Replaced
<1>3. ASSUME NEW i \in 1 .. Len(stack'), NEW s \in Needs(stack'[i])
      PROVE  Done(s)
  <2>1. CASE i \in 1 .. Len(stack) - 1
    <3>1. s \in Needs(stack[i]) /\ i \in 1 .. Len(stack)
      BY <1>1, <1>2, <1>3, <2>1
    <3> QED
      BY <3>1 DEF ReadyInv, Ready
  <2>2. CASE i = Len(stack)
    <3>1. s \in Needs(a)
      BY <1>2, <1>3, <2>2
    <3> QED
      BY <3>1
  <2>3. i \in 1 .. Len(stack) - 1 \/ i = Len(stack)
    <3>1. i \in 1 .. Len(stack)
      BY <1>2, Zenon
    <3> QED
      BY <1>1, <3>1
  <2> QED
    BY <2>1, <2>2, <2>3
<1> QED
  BY <1>3 DEF Ready, Done

LEMMA ReadyGoOn ==
  ASSUME ReadyInv, boot' = boot, Len(stack) > 0,
         NEW p \in {"in", "show", "switch", "load", "store",
                    "user", "gate", "call", "halt", "out"},
         GoOn(p),
         \A s \in Needs(Moved(Top, p)) : Done(s)
  PROVE  Ready'
<1> DEFINE a == Moved(Top, p)
<1>1. stack \in Seq(Activation)
  BY DEF ReadyInv, TypeOK
<1>2. a \in Activation /\ stack' = [stack EXCEPT ![Len(stack)] = a]
  BY <1>1, Continued DEF GoOn, Top
<1> HIDE DEF a
<1>3. \A s \in Needs(a) : Done(s)
  BY DEF a
<1> QED
  BY <1>2, <1>3, ReadyReplace

LEMMA ReadyProgram ==
  ASSUME ReadyInv, boot' = boot, NEW p \in Slots, NEW q \in Slots,
         stack' = Append(stack, Program(p, q)),
         \A s \in {"files", "paging", "shell"} : Done(s)
  PROVE  Ready'
<1> DEFINE a == Program(p, q)
<1>1. a \in Activation /\ a.op = "program" /\ stack' = Append(stack, a)
  BY StartedProgram
<1> HIDE DEF a
<1>2. Needs(a) = {"files", "paging", "shell"}
  BY <1>1 DEF Needs
<1> QED
  BY <1>1, <1>2, ReadyPush

LEMMA ReadyStep ==
  ASSUME ReadyInv, ~EarlySwitch, Next
  PROVE  Ready' /\ Armed'
<1> USE DEF pic, devices, clock, processes
<1>0. /\ TypeOK /\ Ready /\ Armed
      /\ stack \in Seq(Activation) /\ Len(stack) \in Nat
      /\ boot \in 0 .. 11
  BY Steps DEF ReadyInv, TypeOK
<1>1. ASSUME stack' = stack, boot' = boot PROVE Ready'
  BY <1>0, <1>1, Zenon DEF Ready, Done
<1>2. ASSUME boot' = boot, enabled' = enabled, port' \in {port, "none"}
      PROVE  Armed'
  BY <1>0, <1>2 DEF Armed, Done
<1>3. CASE \/ TimerEdge \/ ClockEdge \/ Consume \/ Compute
           \/ ExecuteData \/ ExitNowhere \/ Astray
  BY <1>1, <1>2, <1>3 DEF TimerEdge, ClockEdge, Consume, Compute, ExecuteData,
                          ExitNowhere, Astray, vars
<1>4. ASSUME NEW c \in {"char", "switch"}, KeyPress(c) PROVE Ready' /\ Armed'
  <2>1. Ready'
    BY <1>1, <1>4 DEF KeyPress
  <2>2. Armed'
    BY <1>0, <1>4 DEF KeyPress, Armed, Done
  <2> QED
    BY <2>1, <2>2
<1>5. ASSUME NEW d \in Devices, Accept(d) PROVE Ready' /\ Armed'
  <2> DEFINE a == Start(Handler(d), "in")
  <2>1. a \in Activation /\ stack' = Append(stack, a) /\ boot' = boot
    BY <1>5, Handlers, Started DEF Accept
  <2>2. d \in enabled
    BY <1>5 DEF Accept, Asserted, Deliverable, Path
  <2>3. \A s \in Needs(a) : Done(s)
    <3>1. CASE d = TIMER
      <4>1. Needs(a) = {"idt", "pic", "timer"}
        <5>1. Handler(d) = "pit_handler"
          BY <3>1 DEF Handler, TIMER, KEYBOARD, CLOCK
        <5>2. a.op = "pit_handler" /\ a.pc = "in"
          BY <5>1 DEF Start
        <5> HIDE DEF a
        <5> QED
          BY <5>2 DEF Needs
      <4> QED
        BY <1>0, <2>2, <3>1, <4>1, DoneAt DEF Armed
    <3>2. CASE d = KEYBOARD
      <4>1. Needs(a) = {"idt", "pic", "keyboard"}
        <5>1. Handler(d) = "keyboard_handler"
          BY <3>2 DEF Handler, TIMER, KEYBOARD, CLOCK
        <5>2. a.op = "keyboard_handler" /\ a.pc = "in"
          BY <5>1 DEF Start
        <5> HIDE DEF a
        <5> QED
          BY <5>2 DEF Needs
      <4> QED
        BY <1>0, <2>2, <3>2, <4>1, DoneAt DEF Armed
    <3>3. CASE d = CLOCK
      <4>1. Needs(a) = {"idt", "pic", "chip"}
        <5>1. Handler(d) = "rtc_handler"
          BY <3>3 DEF Handler, TIMER, KEYBOARD, CLOCK
        <5>2. a.op = "rtc_handler" /\ a.pc = "in"
          BY <5>1 DEF Start
        <5> HIDE DEF a
        <5> QED
          BY <5>2 DEF Needs
      <4> QED
        BY <1>0, <2>2, <3>3, <4>1, DoneAt DEF Armed
    <3> QED
      BY <3>1, <3>2, <3>3 DEF Devices
  <2> HIDE DEF a
  <2>4. Ready'
    BY <2>1, <2>3, ReadyPush
  <2>5. Armed'
    BY <1>2, <1>5 DEF Accept
  <2> QED
    BY <2>4, <2>5
<1>6. CASE Boot
  <2>1. /\ stack = <<>> /\ boot < 11 /\ boot' = boot + 1
        /\ boot' \in 0 .. 11 /\ port' = port
    BY <1>0, <1>6, Steps DEF Boot
  <2>2. Ready'
    <3>1. CASE stack' = <<>>
      BY <3>1 DEF Ready
    <3>2. ASSUME Order[boot + 1] = "shell",
                 NEW p \in Slots, stack' = <<Program(p, pid)>>
          PROVE  Ready'
      <4>1. boot' = 11
        BY <1>0, <2>1, <3>2 DEF Order
      <4>2. /\ Len(stack') = 1
            /\ Needs(stack'[1]) = {"files", "paging", "shell"}
        BY <3>2 DEF Program, Needs
      <4>3. Done("files")' /\ Done("paging")' /\ Done("shell")'
        BY <4>1, DoneAtNext
      <4> QED
        BY <4>2, <4>3 DEF Ready
    <3> QED
      BY <1>6, <3>1, <3>2 DEF Boot
  <2>3. Armed'
    <3>1. TIMER \in enabled' => boot' >= 6
      BY <1>0, <1>6, <2>1, DoneAt
      DEF Boot, Armed, Order, Enable, Path, TIMER, KEYBOARD, CASCADE, CLOCK
    <3>2. KEYBOARD \in enabled' => boot' >= 7
      BY <1>0, <1>6, <2>1, DoneAt
      DEF Boot, Armed, Order, Enable, Path, TIMER, KEYBOARD, CASCADE, CLOCK
    <3>3. CLOCK \in enabled' => boot' >= 4
      BY <1>0, <1>6, <2>1, DoneAt
      DEF Boot, Armed, Order, Enable, Path, TIMER, KEYBOARD, CASCADE, CLOCK
    <3>4. port # "switch"
      BY <1>0, <2>1, DoneAt DEF Armed
    <3> QED
      BY <2>1, <3>1, <3>2, <3>3, <3>4, DoneAtNext DEF Armed
  <2> QED
    BY <2>2, <2>3
<1>7. ASSUME Len(stack) > 0, Pop, boot' = boot PROVE Ready'
  <2>1. Len(stack) - 1 \in 0 .. Len(stack)
    BY <1>0, <1>7
  <2> QED
    BY <1>7, <2>1, ReadyPop DEF Pop
<1>8. CASE \/ PitHandler \/ KeyShow \/ ClockStore
           \/ \E t \in Consoles : KeySwitch(t)
  <2>1. Len(stack) > 0 /\ Pop /\ boot' = boot
    BY <1>8 DEF PitHandler, KeyShow, KeySwitch, ClockStore, At
  <2>2. Armed'
    BY <1>2, <1>8 DEF PitHandler, KeyShow, KeySwitch, ClockStore
  <2> QED
    BY <1>7, <2>1, <2>2
<1>9. CASE Exit
  <2>1. PICK i \in Programs : stack' = SubSeq(stack, 1, Left(i))
    BY <1>9 DEF Exit
  <2>2. Ready'
    BY <1>0, <1>9, <2>1, LeftTyped, ReadyPop DEF Exit
  <2> QED
    BY <1>2, <1>9, <2>2 DEF Exit
<1>10. CASE KeyRead
  <2>1. Len(stack) > 0 /\ Top.op = "keyboard_handler" /\ Top.pc = "in"
    BY <1>0, <1>10, TopTyped DEF KeyRead
  <2>2. \A s \in {"idt", "pic", "keyboard"} : Done(s)
    BY <1>0, <2>1 DEF Ready, Top, Needs
  <2>3. CASE port = "switch"
    <3>1. Needs(Moved(Top, "switch")) = {"files", "paging", "shell"}
      BY <2>1, MovedTo DEF Needs
    <3>2. \A s \in {"files", "paging", "shell"} : Done(s)
      BY <1>0, <2>3, DoneAt DEF Armed
    <3> QED
      BY <1>2, <1>10, <2>1, <2>3, <3>1, <3>2, ReadyGoOn DEF KeyRead
  <2>4. CASE port # "switch"
    <3>1. Needs(Moved(Top, "show")) = {"idt", "pic", "keyboard"}
      BY <2>1, MovedTo DEF Needs
    <3> QED
      BY <1>2, <1>10, <2>1, <2>2, <2>4, <3>1, ReadyGoOn DEF KeyRead
  <2> QED
    BY <2>3, <2>4
<1>11. ASSUME NEW t \in Consoles, KeyShell(t) PROVE Ready' /\ Armed'
  <2>1. PICK p \in Slots :
          Runs(p, t) /\ stack' = Append(stack, Program(p, latest_pid[t]))
    BY <1>11 DEF KeyShell
  <2>2. Len(stack) > 0 /\ Top.op = "keyboard_handler" /\ Top.pc = "switch"
    BY <1>0, <1>11, TopTyped DEF KeyShell
  <2>3. \A s \in {"files", "paging", "shell"} : Done(s)
    BY <1>0, <2>2 DEF Ready, Top, Needs
  <2>4. boot' = boot /\ latest_pid[t] \in Slots
    BY <1>0, <1>11 DEF KeyShell, TypeOK
  <2>5. Ready'
    BY <2>1, <2>3, <2>4, ReadyProgram
  <2> QED
    BY <1>2, <1>11, <2>5 DEF KeyShell
<1>12. CASE ClockRead
  <2>1. Len(stack) > 0 /\ Top.op = "rtc_handler"
    BY <1>0, <1>12, TopTyped DEF ClockRead
  <2>2. Needs(Moved(Top, "load")) = Needs(Top)
    BY <2>1, MovedTo DEF Needs
  <2>3. \A s \in Needs(Top) : Done(s)
    BY <1>0, <2>1 DEF Ready, Top
  <2> QED
    BY <1>2, <1>12, <2>1, <2>2, <2>3, ReadyGoOn DEF ClockRead
<1>13. CASE ClockLoad
  <2> DEFINE a == [Top EXCEPT !.pc = "store", !.loaded = virtual_counter]
  <2>1. Len(stack) > 0 /\ Top \in Activation /\ Top.op = "rtc_handler"
    BY <1>0, <1>13, TopTyped DEF ClockLoad
  <2>2. a \in Activation /\ a.op = "rtc_handler"
    BY <1>0, <2>1 DEF Activation, TypeOK
  <2>3. stack' = [stack EXCEPT ![Len(stack)] = a] /\ boot' = boot
    BY <1>13 DEF ClockLoad
  <2> HIDE DEF a
  <2>4. Needs(a) = Needs(Top)
    BY <2>1, <2>2 DEF Needs
  <2>5. \A s \in Needs(Top) : Done(s)
    BY <1>0, <2>1 DEF Ready, Top
  <2>6. Ready'
    BY <2>1, <2>2, <2>3, <2>4, <2>5, ReadyReplace
  <2> QED
    BY <1>2, <1>13, <2>6 DEF ClockLoad
<1>14. CASE Gate \/ Call \/ InvalidCall \/ Return \/ User \/ HaltBase
  <2>1. Len(stack) > 0 /\ Top.op = "program"
    BY <1>0, <1>14, TopTyped DEF Gate, Call, InvalidCall, Return, User, HaltBase
  <2>2. \E p \in {"user", "gate", "call", "halt", "out"} : GoOn(p)
    BY <1>14 DEF Gate, Call, InvalidCall, Return, User, HaltBase
  <2>3. boot' = boot /\ enabled' = enabled /\ port' = port
    BY <1>14 DEF Gate, Call, InvalidCall, Return, User, HaltBase
  <2>4. PICK p \in {"user", "gate", "call", "halt", "out"} : GoOn(p)
    BY <2>2
  <2>5. Needs(Moved(Top, p)) = Needs(Top)
    BY <2>1, MovedTo DEF Needs
  <2>6. \A s \in Needs(Top) : Done(s)
    BY <1>0, <2>1 DEF Ready, Top
  <2> QED
    BY <1>2, <2>1, <2>3, <2>4, <2>5, <2>6, ReadyGoOn
<1>15. CASE Execute
  <2>1. PICK p \in Slots :
          /\ Runs(p, cur_terminal)
          /\ stack' = Append(stack, Program(p, pid))
    BY <1>15 DEF Execute
  <2>2. Len(stack) > 0 /\ Top.op = "program" /\ pid \in Slots
    BY <1>0, <1>15, TopTyped DEF Execute, TypeOK
  <2>3. \A s \in {"files", "paging", "shell"} : Done(s)
    BY <1>0, <2>2 DEF Ready, Top, Needs
  <2>4. Ready'
    BY <1>15, <2>1, <2>2, <2>3, ReadyProgram DEF Execute
  <2> QED
    BY <1>2, <1>15, <2>4 DEF Execute
<1> QED
  BY <1>3, <1>4, <1>5, <1>6, <1>8, <1>9, <1>10, <1>11, <1>12, <1>13, <1>14,
     <1>15
  DEF Next, KernelStep, HandlerStep

\* Although rtc_init enables interrupts in the middle of entry, a handler finds
\* what it needs, when the user leaves Alt+Fn alone until the base shell runs.
THEOREM Prepared ==
  ASSUME ~EarlySwitch
  PROVE  Spec => []Ready
<1>1. Init => ReadyInv
  <2> SUFFICES ASSUME Init PROVE ReadyInv
    OBVIOUS
  <2>1. enabled = {} /\ stack = <<>> /\ port = "none"
    BY DEF Init
  <2>2. Ready /\ Armed
    BY <2>1 DEF Ready, Armed
  <2> QED
    BY <2>2, InitTyped DEF ReadyInv
<1>2. ReadyInv /\ [Next]_vars => ReadyInv'
  <2> SUFFICES ASSUME ReadyInv, [Next]_vars PROVE ReadyInv'
    OBVIOUS
  <2>1. CASE Next
    BY <2>1, TypeStep, ReadyStep DEF ReadyInv
  <2>2. CASE UNCHANGED vars
    BY <2>2 DEF ReadyInv, TypeOK, Ready, Armed, Done, vars, pic, devices, clock, processes
  <2> QED
    BY <2>1, <2>2
<1>3. ReadyInv => Ready
  BY DEF ReadyInv
<1> QED
  BY <1>1, <1>2, <1>3, PTL DEF Spec

-----------------------------------------------------------------------------
\* The count of the clock.  Interrupts are masked only where system_call is
\* entered or left, the line of the clock is enabled as soon as they are not,
\* and a switch of terminals waits for the acknowledgement of what it
\* interrupts.  Hence, as long as no shell was started on top of a handler
\* that has not counted, there is one such handler at most, no program runs on
\* top of it, and the clock stays quiet until it has counted.

Aside(a) ==
  a.op = "program" \/ (a.op = "keyboard_handler" /\ a.pc = "switch")
Masked(a) == a.pc \in {"gate", "out"}

Flags ==
  /\ boot < 5 => stack = <<>> /\ ~iflag
  /\ boot >= 5 => {CASCADE, CLOCK} \subseteq enabled
  /\ \A i \in 1 .. Len(stack) : Masked(stack[i]) => i = Len(stack)
  /\ boot >= 5 => (iflag <=> \A i \in 1 .. Len(stack) : ~Masked(stack[i]))

Clear ==
  \A j \in 1 .. Len(stack) : Aside(stack[j]) =>
    \A i \in 1 .. j - 1 : InService(stack[i]) \subseteq {CASCADE, CLOCK}

Alone ==
  /\ \A i, j \in Uncounted : i = j
  /\ \A i \in Uncounted, j \in Programs : j < i
  /\ Uncounted # {} => CLOCK \notin irr \cup fresh
  /\ CLOCK \notin irr \cap fresh
  /\ \A i \in Uncounted :
       stack[i].pc = "store" => stack[i].loaded = virtual_counter

CountsInv == AckInv /\ Flags /\ Clear /\ (~split => Alone)

\* How a step moves the stack.
Pushes(a) ==
  /\ Len(stack') = Len(stack) + 1
  /\ \A i \in 1 .. Len(stack) : stack'[i] = stack[i]
  /\ stack'[Len(stack) + 1] = a
Replaces(a) ==
  /\ Len(stack') = Len(stack)
  /\ \A i \in 1 .. Len(stack) - 1 : stack'[i] = stack[i]
  /\ stack'[Len(stack)] = a
Drops(n) ==
  /\ Len(stack') = n
  /\ \A i \in 1 .. n : stack'[i] = stack[i]
Same == boot' = boot /\ enabled' = enabled

LEMMA Depth ==
  ASSUME TypeOK
  PROVE  stack \in Seq(Activation) /\ Len(stack) \in Nat /\ boot \in 0 .. 11
BY Steps DEF TypeOK

LEMMA PushesA ==
  ASSUME TypeOK, NEW a \in Activation, stack' = Append(stack, a)
  PROVE  Pushes(a)
BY Depth, Pushed DEF Pushes

LEMMA GoesOn ==
  ASSUME TypeOK, Len(stack) > 0,
         NEW p \in {"in", "show", "switch", "load", "store",
                    "user", "gate", "call", "halt", "out"},
         GoOn(p)
  PROVE  Replaces(Moved(Top, p))
<1> DEFINE a == Moved(Top, p)
<1>1. a \in Activation /\ stack' = [stack EXCEPT ![Len(stack)] = a]
  BY Depth, Continued DEF GoOn, Top
<1> HIDE DEF a
<1>2. Replaces(a)
  BY <1>1, Depth, Replaced DEF Replaces
<1> QED
  BY <1>2 DEF a

LEMMA DropsN ==
  ASSUME TypeOK, NEW n \in 0 .. Len(stack), stack' = SubSeq(stack, 1, n)
  PROVE  Drops(n)
BY Depth, Popped DEF Drops

LEMMA PopDrops ==
  ASSUME TypeOK, Len(stack) > 0, Pop
  PROVE  Drops(Len(stack) - 1)
<1>1. Len(stack) - 1 \in 0 .. Len(stack)
  BY Depth
<1> QED
  BY <1>1, DropsN DEF Pop

\* The interrupt flag.
LEMMA Unmasked ==
  ASSUME TypeOK, Flags, Len(stack) > 0, ~Masked(Top)
  PROVE  /\ boot >= 5 /\ iflag
         /\ \A i \in 1 .. Len(stack) : ~Masked(stack[i])
<1>1. Len(stack) \in Nat /\ boot \in 0 .. 11
  BY Depth
<1>2. boot >= 5
  BY <1>1 DEF Flags
<1>3. \A i \in 1 .. Len(stack) : ~Masked(stack[i])
  BY <1>1 DEF Flags, Top
<1> QED
  BY <1>2, <1>3 DEF Flags

LEMMA FlagsPush ==
  ASSUME TypeOK, Flags, Same, iflag, iflag' = iflag,
         NEW a, Pushes(a), ~Masked(a)
  PROVE  Flags'
<1>1. Len(stack) \in Nat /\ boot \in 0 .. 11
  BY Depth
<1>2. boot >= 5 /\ \A i \in 1 .. Len(stack) : ~Masked(stack[i])
  BY <1>1 DEF Flags
<1>3. \A i \in 1 .. Len(stack') : i \in 1 .. Len(stack) \/ i = Len(stack) + 1
  BY <1>1 DEF Pushes
<1>4. \A i \in 1 .. Len(stack') : ~Masked(stack'[i])
  BY <1>2, <1>3 DEF Pushes
<1> QED
  BY <1>1, <1>2, <1>4 DEF Flags, Same

LEMMA FlagsDrop ==
  ASSUME TypeOK, Flags, Same, Len(stack) > 0, ~Masked(Top), iflag' = iflag,
         NEW n \in 0 .. Len(stack), Drops(n)
  PROVE  Flags'
<1>1. Len(stack) \in Nat /\ boot \in 0 .. 11
  BY Depth
<1>2. boot >= 5 /\ iflag /\ \A i \in 1 .. Len(stack) : ~Masked(stack[i])
  BY Unmasked
<1>3. \A i \in 1 .. Len(stack') : ~Masked(stack'[i])
  BY <1>1, <1>2 DEF Drops
<1> QED
  BY <1>1, <1>2, <1>3 DEF Flags, Same

LEMMA FlagsReplace ==
  ASSUME TypeOK, Flags, Same, Len(stack) > 0, NEW a, Replaces(a),
         iflag' \in BOOLEAN, iflag' <=> ~Masked(a)
  PROVE  Flags'
<1>1. Len(stack) \in Nat /\ boot \in 0 .. 11
  BY Depth
<1>2. boot >= 5
  BY <1>1 DEF Flags
<1>3. \A i \in 1 .. Len(stack) - 1 : ~Masked(stack[i])
  BY <1>1 DEF Flags
<1>4. \A i \in 1 .. Len(stack) : i \in 1 .. Len(stack) - 1 \/ i = Len(stack)
  BY <1>1
<1>5. \A i \in 1 .. Len(stack') : Masked(stack'[i]) => i = Len(stack)
  BY <1>3, <1>4 DEF Replaces
<1>6. Len(stack) \in 1 .. Len(stack)
  BY <1>1
<1>7. iflag' <=> \A i \in 1 .. Len(stack') : ~Masked(stack'[i])
  BY <1>5, <1>6 DEF Replaces
<1> QED
  BY <1>1, <1>2, <1>5, <1>7 DEF Flags, Same, Replaces

\* What runs aside of the interrupts in service.
LEMMA ClearPush ==
  ASSUME TypeOK, Clear, NEW a, Pushes(a),
         Aside(a) => \A i \in 1 .. Len(stack) :
                       InService(stack[i]) \subseteq {CASCADE, CLOCK}
  PROVE  Clear'
<1>1. Len(stack) \in Nat
  BY Depth
<1>2. ASSUME NEW j \in 1 .. Len(stack'), Aside(stack'[j]),
             NEW i \in 1 .. j - 1
      PROVE  InService(stack'[i]) \subseteq {CASCADE, CLOCK}
  <2>1. i \in 1 .. Len(stack) /\ stack'[i] = stack[i]
    BY <1>1, <1>2 DEF Pushes
  <2>2. CASE j = Len(stack) + 1
    BY <1>2, <2>1, <2>2 DEF Pushes
  <2>3. CASE j \in 1 .. Len(stack)
    BY <1>2, <2>1, <2>3 DEF Pushes, Clear
  <2> QED
    BY <1>1, <2>2, <2>3 DEF Pushes
<1> QED
  BY <1>2 DEF Clear

LEMMA ClearReplace ==
  ASSUME TypeOK, Clear, Len(stack) > 0, NEW a, Replaces(a),
         \/ ~Aside(a)
         \/ Aside(Top)
         \/ \A i \in 1 .. Len(stack) - 1 :
              InService(stack[i]) \subseteq {CASCADE, CLOCK}
  PROVE  Clear'
<1>1. Len(stack) \in Nat /\ Len(stack) \in 1 .. Len(stack)
  BY Depth
<1>2. ASSUME NEW j \in 1 .. Len(stack'), Aside(stack'[j]),
             NEW i \in 1 .. j - 1
      PROVE  InService(stack'[i]) \subseteq {CASCADE, CLOCK}
  <2>1. i \in 1 .. Len(stack) - 1 /\ stack'[i] = stack[i]
    BY <1>1, <1>2 DEF Replaces
  <2>2. CASE j = Len(stack)
    BY <1>1, <1>2, <2>1, <2>2 DEF Replaces, Clear, Top
  <2>3. CASE j \in 1 .. Len(stack) - 1
    BY <1>1, <1>2, <2>1, <2>3 DEF Replaces, Clear
  <2> QED
    BY <1>1, <2>2, <2>3 DEF Replaces
<1> QED
  BY <1>2 DEF Clear

LEMMA ClearDrop ==
  ASSUME TypeOK, Clear, NEW n \in 0 .. Len(stack), Drops(n)
  PROVE  Clear'
<1>1. Len(stack) \in Nat
  BY Depth
<1>2. ASSUME NEW j \in 1 .. Len(stack'), Aside(stack'[j]),
             NEW i \in 1 .. j - 1
      PROVE  InService(stack'[i]) \subseteq {CASCADE, CLOCK}
  <2>1. i \in 1 .. n /\ j \in 1 .. Len(stack) /\ j \in 1 .. n
    BY <1>1, <1>2 DEF Drops
  <2> QED
    BY <1>2, <2>1 DEF Drops, Clear
<1> QED
  BY <1>2 DEF Clear

\* While no shell runs on top of a handler of the clock, a program finds no
\* line in service, so the clock has been served.
LEMMA Served0 ==
  ASSUME CountsInv, ~split, ~astray, Len(stack) > 0, Top.op = "program"
  PROVE  Uncounted = {} /\ isr = {}
<1>1. /\ Len(stack) \in Nat /\ Len(stack) \in 1 .. Len(stack)
      /\ stack \in Seq(Activation)
  BY Depth DEF CountsInv, AckInv
<1>2. Len(stack) \in Programs
  BY <1>1 DEF Programs, Activations, Top
<1>3. \A i \in Uncounted : Len(stack) < i /\ i \in 1 .. Len(stack)
  BY <1>2 DEF CountsInv, Alone, Uncounted, Activations
<1>4. Uncounted = {}
  BY <1>1, <1>3
<1>5. ASSUME NEW i \in 1 .. Len(stack) PROVE InService(stack[i]) = {}
  <2>1. CASE i = Len(stack)
    BY <2>1 DEF Top, InService
  <2>2. CASE i \in 1 .. Len(stack) - 1
    <3>1. InService(stack[i]) \subseteq {CASCADE, CLOCK}
      BY <1>1, <2>2 DEF CountsInv, Clear, Aside, Top
    <3>2. stack[i].op # "rtc_handler"
      BY <1>4, <1>5 DEF Uncounted, Activations
    <3> QED
      BY <3>1, <3>2 DEF InService, TIMER, KEYBOARD, CASCADE, CLOCK
  <2> QED
    BY <1>1, <2>1, <2>2
<1>6. isr = UNION {InService(stack[i]) : i \in 1 .. Len(stack)}
  BY Zenon DEF CountsInv, AckInv, Acknowledged
<1>7. isr = {}
  BY <1>5, <1>6
<1> QED
  BY <1>4, <1>7

\* Where interrupts are enabled and nothing is in service, a request of the
\* clock would be accepted before anything else happens.
LEMMA NoRequest ==
  ASSUME Flags, boot >= 5, iflag, isr = {}, Undisturbed
  PROVE  CLOCK \notin irr
<1>1. CLOCK \in Devices /\ Path(CLOCK) \subseteq enabled
  BY DEF Flags, Path, Devices
<1> QED
  BY <1>1 DEF Undisturbed, Deliverable

\* The handlers of the clock that have not counted.
LEMMA AlonePush ==
  ASSUME TypeOK, Alone, NEW a, Pushes(a), virtual_counter' = virtual_counter,
         \/ CLOCK \notin irr' \cup fresh'
         \/ irr' \cup fresh' \subseteq irr \cup fresh,
         CLOCK \notin irr' \cap fresh',
         \/ a.op \notin {"rtc_handler", "program"}
         \/ /\ a.op = "program" /\ Uncounted = {}
         \/ /\ a.op = "rtc_handler" /\ a.pc # "store" /\ Uncounted = {}
            /\ CLOCK \notin irr' \cup fresh'
  PROVE  Alone'
<1>1. Len(stack) \in Nat
  BY Depth
<1>2. \A i : i \in 1 .. Len(stack') <=>
               i \in 1 .. Len(stack) \/ i = Len(stack) + 1
  BY <1>1 DEF Pushes
<1>3. \A i : /\ i \in Uncounted' <=> \/ i \in Uncounted
                                     \/ i = Len(stack) + 1
                                        /\ a.op = "rtc_handler"
             /\ i \in Programs' <=> \/ i \in Programs
                                    \/ i = Len(stack) + 1 /\ a.op = "program"
  BY <1>1, <1>2 DEF Pushes, Uncounted, Programs, Activations
<1>4. \A i \in Uncounted \cup Programs :
        i \in 1 .. Len(stack) /\ i < Len(stack) + 1 /\ stack'[i] = stack[i]
  BY <1>1 DEF Pushes, Uncounted, Programs, Activations
<1>5. stack'[Len(stack) + 1] = a
  BY DEF Pushes
<1>6. \A i, j \in Uncounted' : i = j
  BY <1>3 DEF Alone
<1>7. \A i \in Uncounted', j \in Programs' : j < i
  BY <1>3, <1>4 DEF Alone
<1>8. Uncounted' # {} => CLOCK \notin irr' \cup fresh'
  BY <1>3 DEF Alone
<1>9. \A i \in Uncounted' :
        stack'[i].pc = "store" => stack'[i].loaded = virtual_counter'
  BY <1>3, <1>4, <1>5 DEF Alone
<1> QED
  BY <1>6, <1>7, <1>8, <1>9 DEF Alone

LEMMA AloneReplace ==
  ASSUME TypeOK, Alone, Len(stack) > 0, NEW a, Replaces(a), a.op = Top.op,
         virtual_counter' = virtual_counter,
         irr' = irr, fresh' = fresh,
         \/ a.op # "rtc_handler"
         \/ a.pc # "store"
         \/ a.loaded = virtual_counter
  PROVE  Alone'
<1>1. Len(stack) \in Nat
  BY Depth
<1>2. \A i \in 1 .. Len(stack) : i \in 1 .. Len(stack) - 1 \/ i = Len(stack)
  BY <1>1
<1>3. \A i \in 1 .. Len(stack) : stack'[i].op = stack[i].op
  BY <1>2 DEF Replaces, Top
<1>4. Uncounted' = Uncounted /\ Programs' = Programs
  BY <1>3 DEF Replaces, Uncounted, Programs, Activations
<1>5. \A i \in Uncounted :
        stack'[i].pc = "store" => stack'[i].loaded = virtual_counter
  BY <1>2, <1>3 DEF Replaces, Alone, Uncounted, Activations
<1> QED
  BY <1>4, <1>5 DEF Alone

LEMMA AloneDrop ==
  ASSUME TypeOK, Alone, NEW n \in 0 .. Len(stack), Drops(n),
         irr' = irr, fresh' = fresh,
         \/ virtual_counter' = virtual_counter
         \/ Uncounted \subseteq n + 1 .. Len(stack)
  PROVE  Alone'
<1>1. Len(stack) \in Nat
  BY Depth
<1>2. \A i \in 1 .. n : i \in 1 .. Len(stack) /\ stack'[i] = stack[i]
  BY <1>1 DEF Drops
<1>3. Uncounted' \subseteq Uncounted /\ Programs' \subseteq Programs
  BY <1>2 DEF Drops, Uncounted, Programs, Activations
<1>4. ASSUME NEW i \in Uncounted', stack'[i].pc = "store"
      PROVE  stack'[i].loaded = virtual_counter'
  <2>1. i \in Uncounted /\ i \in 1 .. n
    BY <1>3, <1>4 DEF Drops, Uncounted, Activations
  <2>2. i \notin n + 1 .. Len(stack)
    BY <2>1
  <2>3. virtual_counter' = virtual_counter
    BY <2>1, <2>2
  <2> QED
    BY <1>2, <1>4, <2>1, <2>3 DEF Alone
<1> QED
  BY <1>3, <1>4 DEF Alone

\* The handler of the clock is the only one that has not counted.
LEMMA OneUncounted ==
  ASSUME TypeOK, Alone, Len(stack) > 0, Top.op = "rtc_handler"
  PROVE  Uncounted = {Len(stack)}
<1>1. Len(stack) \in 1 .. Len(stack)
  BY Depth
<1> QED
  BY <1>1 DEF Alone, Uncounted, Activations, Top

LEMMA CountsStep ==
  ASSUME CountsInv, Next
  PROVE  Flags' /\ Clear' /\ (~split' => Alone')
<1> USE DEF pic, devices, clock, processes
<1>0. /\ TypeOK /\ AckInv /\ Flags /\ Clear /\ (~split => Alone)
      /\ stack \in Seq(Activation) /\ Len(stack) \in Nat
      /\ boot \in 0 .. 11
  BY Depth DEF CountsInv, AckInv
<1>1. ASSUME stack' = stack
      PROVE  Clear' /\ Uncounted' = Uncounted /\ Programs' = Programs
  BY <1>0, <1>1 DEF Clear, Uncounted, Programs, Activations
<1>2. ASSUME stack' = stack, iflag' = iflag, Same
      PROVE  Flags'
  BY <1>0, <1>2 DEF Flags, Same
<1>3. ASSUME UNCHANGED stack, UNCHANGED split, UNCHANGED virtual_counter,
             irr' \cup fresh' \subseteq irr \cup fresh,
             ~split => CLOCK \notin irr' \cap fresh'
      PROVE  ~split' => Alone'
  BY <1>0, <1>1, <1>3 DEF Alone
<1>4. CASE TimerEdge
  <2>1. /\ irr' \cup fresh' \subseteq irr \cup fresh
        /\ irr' \cap fresh' \subseteq irr \cap fresh
    BY <1>4 DEF TimerEdge, Raise
  <2> QED
    BY <1>0, <1>1, <1>2, <1>3, <1>4, <2>1 DEF TimerEdge, Same, Alone
<1>5. CASE ClockEdge
  <2>1. irr' \cup fresh' \subseteq irr \cup fresh /\ CLOCK \notin fresh'
    BY <1>5 DEF ClockEdge, Raise
  <2> QED
    BY <1>1, <1>2, <1>3, <1>5, <2>1 DEF ClockEdge, Same
<1>6. ASSUME NEW c \in {"char", "switch"}, KeyPress(c)
      PROVE  Flags' /\ Clear' /\ (~split' => Alone')
  <2>1. /\ irr' \cup fresh' \subseteq irr \cup fresh
        /\ irr' \cap fresh' \subseteq irr \cap fresh
    BY <1>6 DEF KeyPress, Raise
  <2> QED
    BY <1>0, <1>1, <1>2, <1>3, <1>6, <2>1 DEF KeyPress, Same, Alone
<1>7. ASSUME NEW d \in Devices, Accept(d)
      PROVE  Flags' /\ Clear' /\ (~split' => Alone')
  <2> DEFINE a == Start(Handler(d), "in")
  <2>1. /\ a \in Activation /\ a.pc = "in" /\ a.op # "program"
        /\ a.op = "rtc_handler" <=> d = CLOCK
    BY Handlers, Started DEF Start, Handler, Devices, TIMER, KEYBOARD, CLOCK
  <2>2. stack' = Append(stack, a) /\ iflag /\ iflag' = iflag /\ Same
    BY <1>7 DEF Accept, Same
  <2> HIDE DEF a
  <2>3. Pushes(a)
    BY <1>0, <2>1, <2>2, PushesA
  <2>4. ~Masked(a) /\ ~Aside(a)
    BY <2>1 DEF Masked, Aside
  <2>5. Flags' /\ Clear'
    BY <1>0, <2>2, <2>3, <2>4, FlagsPush, ClearPush
  <2>6. /\ irr' = irr \ {d} /\ fresh' = fresh /\ split' = split
        /\ virtual_counter' = virtual_counter
    BY <1>7 DEF Accept
  <2>7. ASSUME ~split PROVE Alone'
    <3>1. CASE d = CLOCK
      <4>1. CLOCK \in irr
        BY <1>7, <3>1 DEF Accept, Asserted, Deliverable
      <4>2. Uncounted = {} /\ CLOCK \notin fresh
        BY <1>0, <2>7, <4>1 DEF Alone
      <4>3. a.op = "rtc_handler" /\ a.pc # "store"
        BY <2>1, <3>1
      <4>4. CLOCK \notin irr' \cup fresh'
        BY <2>6, <3>1, <4>2
      <4> QED
        BY <1>0, <2>3, <2>6, <2>7, <4>2, <4>3, <4>4, AlonePush
    <3>2. CASE d # CLOCK
      <4>1. a.op \notin {"rtc_handler", "program"}
        BY <2>1, <3>2
      <4>2. /\ irr' \cup fresh' \subseteq irr \cup fresh
            /\ CLOCK \notin irr' \cap fresh'
        BY <1>0, <2>6, <2>7 DEF Alone
      <4> QED
        BY <1>0, <2>3, <2>6, <2>7, <4>1, <4>2, AlonePush
    <3> QED
      BY <3>1, <3>2
  <2> QED
    BY <2>5, <2>6, <2>7
<1>8. CASE Boot
  <2>1. /\ stack = <<>> /\ boot < 11 /\ boot' = boot + 1 /\ Undisturbed
        /\ split' = split /\ virtual_counter' = virtual_counter
    BY <1>8, Steps DEF Boot
  <2>2. Order[boot + 1] = "shell" <=> boot = 10
    BY <1>0, <2>1 DEF Order
  <2>3. Order[boot + 1] \in {"clock", "sti"} <=> boot \in {4, 9}
    BY <1>0, <2>1 DEF Order
  <2>4. Order[boot + 1] = "chip" <=> boot = 3
    BY <1>0, <2>1 DEF Order
  <2>5. Order[boot + 1] = "pic" <=> boot = 1
    BY <1>0, <2>1 DEF Order
  <2>6. Order[boot + 1] = "clock" <=> boot = 4
    BY <1>0, <2>1 DEF Order
  <2>7. \/ boot < 10 /\ stack' = <<>>
        \/ /\ boot = 10
           /\ \E p \in Slots : stack' = <<Program(p, pid)>>
    BY <1>0, <1>8, <2>1, <2>2 DEF Boot
  <2>8. iflag <=> boot >= 5
    BY <1>0, <2>1 DEF Flags, TypeOK
  <2>9. iflag' <=> boot' >= 5
    BY <1>0, <1>8, <2>1, <2>3, <2>4, <2>8 DEF Boot
  <2>10. iflag' \in BOOLEAN
    BY <1>0, <1>8 DEF Boot, TypeOK
  <2>11. boot' >= 5 => {CASCADE, CLOCK} \subseteq enabled'
    <3>1. CASE boot = 4
      BY <1>8, <2>6, <3>1 DEF Boot, Enable, Path
    <3>2. CASE boot > 4
      <4>1. {CASCADE, CLOCK} \subseteq enabled
        BY <1>0, <3>2 DEF Flags
      <4>2. enabled \subseteq enabled'
        BY <1>8, <2>4, <2>5, <3>2 DEF Boot, Enable
      <4> QED
        BY <4>1, <4>2
    <3> QED
      BY <1>0, <2>1, <3>1, <3>2
  <2>12. \A i \in 1 .. Len(stack') : i = Len(stack') /\ i = 1
                                     /\ stack'[i].op = "program"
                                     /\ stack'[i].pc = "user"
    <3>1. CASE stack' = <<>>
      BY <3>1
    <3>2. ASSUME NEW a, a.op = "program", a.pc = "user", stack' = <<a>>
          PROVE  \A i \in 1 .. Len(stack') : i = Len(stack') /\ i = 1
                                            /\ stack'[i].op = "program"
                                            /\ stack'[i].pc = "user"
      BY <3>2
    <3>3. CASE \E p \in Slots : stack' = <<Program(p, pid)>>
      <4>1. PICK p \in Slots : stack' = <<Program(p, pid)>>
        BY <3>3
      <4>2. Program(p, pid).op = "program" /\ Program(p, pid).pc = "user"
        BY DEF Program
      <4> QED
        BY <3>2, <4>1, <4>2
    <3> QED
      BY <2>7, <3>1, <3>3
  <2>13. Flags'
    <3>1. \A i \in 1 .. Len(stack') : ~Masked(stack'[i])
      BY <2>12 DEF Masked
    <3>2. boot' < 5 => stack' = <<>>
      BY <1>0, <2>1, <2>7
    <3> QED
      BY <1>0, <2>1, <2>9, <2>10, <2>11, <2>12, <3>1, <3>2 DEF Flags
  <2>14. Clear'
    BY <2>12 DEF Clear
  <2>15. ASSUME ~split PROVE Alone'
    <3>1. Uncounted' = {}
      BY <2>12 DEF Uncounted, Activations
    <3>2. CASE iflag
      <4>1. isr = {}
        BY <1>0, <2>1 DEF AckInv, Acknowledged, Undisturbed
      <4>2. CLOCK \notin irr
        BY <1>0, <2>1, <2>8, <3>2, <4>1, NoRequest
      <4>3. CLOCK \notin irr'
        BY <1>8, <4>2 DEF Boot
      <4> QED
        BY <3>1, <4>3 DEF Alone
    <3>3. CASE ~iflag
      <4>1. fresh' = fresh /\ irr' \subseteq irr
        BY <1>8, <3>3 DEF Boot
      <4> QED
        BY <1>0, <2>15, <3>1, <4>1 DEF Alone
    <3> QED
      BY <3>2, <3>3
  <2> QED
    BY <2>1, <2>13, <2>14, <2>15
<1>9. ASSUME Len(stack) > 0, Pop, ~Masked(Top), Same, iflag' = iflag,
             irr' = irr, fresh' = fresh, split' = split,
             \/ virtual_counter' = virtual_counter
             \/ Top.op = "rtc_handler"
      PROVE  Flags' /\ Clear' /\ (~split' => Alone')
  <2>1. Drops(Len(stack) - 1) /\ Len(stack) - 1 \in 0 .. Len(stack)
    BY <1>0, <1>9, PopDrops
  <2>2. Flags' /\ Clear'
    BY <1>0, <1>9, <2>1, FlagsDrop, ClearDrop
  <2>3. ASSUME ~split PROVE Alone'
    <3>1. \/ virtual_counter' = virtual_counter
          \/ Uncounted \subseteq (Len(stack) - 1) + 1 .. Len(stack)
      <4>1. CASE Top.op = "rtc_handler"
        BY <1>0, <1>9, <2>3, <4>1, OneUncounted
      <4> QED
        BY <1>9, <4>1
    <3> QED
      BY <1>0, <1>9, <2>1, <2>3, <3>1, AloneDrop
  <2> QED
    BY <1>9, <2>2, <2>3
<1>10. CASE \/ PitHandler \/ KeyShow \/ ClockStore
            \/ \E t \in Consoles : KeySwitch(t)
  <2>1. /\ Len(stack) > 0 /\ Top.pc \in {"in", "show", "switch", "store"}
        /\ \/ virtual_counter' = virtual_counter
           \/ Top.op = "rtc_handler"
    BY <1>0, <1>10, TopTyped DEF PitHandler, KeyShow, KeySwitch, ClockStore
  <2>2. ~Masked(Top)
    BY <2>1 DEF Masked
  <2> QED
    BY <1>9, <1>10, <2>1, <2>2
    DEF PitHandler, KeyShow, KeySwitch, ClockStore, Same
<1>11. ASSUME Len(stack) > 0, NEW a, Replaces(a), a.op = Top.op,
              Same, iflag' \in BOOLEAN, iflag' <=> ~Masked(a),
              irr' = irr, fresh' = fresh, split' = split,
              virtual_counter' = virtual_counter,
              \/ a.op # "rtc_handler"
              \/ a.pc # "store"
              \/ a.loaded = virtual_counter,
              \/ ~Aside(a)
              \/ Aside(Top)
              \/ \A i \in 1 .. Len(stack) - 1 :
                   InService(stack[i]) \subseteq {CASCADE, CLOCK}
       PROVE  Flags' /\ Clear' /\ (~split' => Alone')
  <2>1. Flags'
    BY <1>0, <1>11, FlagsReplace
  <2>2. Clear'
    BY <1>0, <1>11, ClearReplace
  <2>3. ~split => Alone'
    BY <1>0, <1>11, AloneReplace
  <2> QED
    BY <1>11, <2>1, <2>2, <2>3
<1>12. CASE KeyRead
  <2>1. /\ Len(stack) > 0 /\ Top.op = "keyboard_handler" /\ Top.pc = "in"
        /\ Same /\ iflag' = iflag /\ irr' = irr /\ fresh' = fresh
        /\ split' = split /\ virtual_counter' = virtual_counter
    BY <1>0, <1>12, TopTyped DEF KeyRead, Same
  <2>2. iflag
    BY <1>0, <2>1, Unmasked DEF Masked
  <2>3. \A i \in 1 .. Len(stack) - 1 :
          InService(stack[i]) \subseteq {CASCADE, CLOCK}
    <3>1. ASSUME NEW i \in 1 .. Len(stack) - 1, NEW k \in InService(stack[i])
          PROVE  k \in {CASCADE, CLOCK}
      <4>1. KEYBOARD \in InService(stack[Len(stack)])
        BY <2>1 DEF InService, Top
      <4>2. Rank(KEYBOARD) < Rank(k) /\ k \in Lines
        BY <1>0, <1>12, <4>1, Ranks
        DEF KeyRead, At, Undisturbed, AckInv, Acknowledged
      <4> QED
        BY <4>2 DEF Rank, Lines, Devices, TIMER, KEYBOARD, CASCADE, CLOCK
    <3> QED
      BY <3>1
  <2>4. PICK p \in {"show", "switch"} : GoOn(p)
    BY <1>12 DEF KeyRead
  <2> DEFINE a == Moved(Top, p)
  <2>5. Replaces(a) /\ a.op = Top.op /\ a.pc = p
    BY <1>0, <2>1, <2>4, GoesOn, MovedTo
  <2> HIDE DEF a
  <2>6. ~Masked(a) /\ a.pc # "store"
    BY <2>4, <2>5 DEF Masked
  <2> QED
    BY <1>0, <1>11, <2>1, <2>2, <2>3, <2>5, <2>6 DEF TypeOK
<1>13. ASSUME NEW t \in Consoles, KeyShell(t)
       PROVE  Flags' /\ Clear' /\ (~split' => Alone')
  <2>1. PICK p \in Slots :
          Runs(p, t) /\ stack' = Append(stack, Program(p, latest_pid[t]))
    BY <1>13 DEF KeyShell
  <2> DEFINE a == Program(p, latest_pid[t])
  <2>2. a \in Activation /\ a.op = "program" /\ a.pc = "user"
    BY <1>0, StartedProgram DEF TypeOK
  <2>3. /\ stack' = Append(stack, a) /\ iflag' = iflag /\ Same
        /\ irr' = irr /\ fresh' = fresh /\ virtual_counter' = virtual_counter
        /\ split' = (split \/ Uncounted # {})
    BY <1>13, <2>1 DEF KeyShell, Same
  <2>4. Len(stack) > 0 /\ Top.op = "keyboard_handler" /\ Top.pc = "switch"
    BY <1>0, <1>13, TopTyped DEF KeyShell
  <2> HIDE DEF a
  <2>5. Pushes(a)
    BY <1>0, <2>2, <2>3, PushesA
  <2>6. Flags'
    <3>1. iflag
      BY <1>0, <2>4, Unmasked DEF Masked
    <3> QED
      BY <1>0, <2>2, <2>3, <2>5, <3>1, FlagsPush DEF Masked
  <2>7. \A i \in 1 .. Len(stack) :
          InService(stack[i]) \subseteq {CASCADE, CLOCK}
    <3>1. ASSUME NEW i \in 1 .. Len(stack) - 1
          PROVE  InService(stack[i]) \subseteq {CASCADE, CLOCK}
      <4>1. Len(stack) \in 1 .. Len(stack) /\ Aside(stack[Len(stack)])
        BY <1>0, <2>4 DEF Aside, Top
      <4> QED
        BY <1>0, <3>1, <4>1 DEF Clear
    <3>2. InService(stack[Len(stack)]) = {}
      BY <2>4 DEF InService, Top
    <3>3. \A i \in 1 .. Len(stack) :
            i \in 1 .. Len(stack) - 1 \/ i = Len(stack)
      BY <1>0
    <3> QED
      BY <3>1, <3>2, <3>3
  <2>8. Clear'
    BY <1>0, <2>5, <2>7, ClearPush
  <2>9. ASSUME ~split' PROVE Alone'
    <3>1. Alone /\ Uncounted = {}
      BY <1>0, <2>3, <2>9
    <3>2. /\ CLOCK \notin irr' \cap fresh'
          /\ irr' \cup fresh' \subseteq irr \cup fresh
      BY <2>3, <3>1 DEF Alone
    <3> QED
      BY <1>0, <2>2, <2>3, <2>5, <3>1, <3>2, AlonePush
  <2> QED
    BY <2>6, <2>8, <2>9
<1>14. CASE ClockRead
  <2>1. /\ Len(stack) > 0 /\ Top.op = "rtc_handler" /\ Top.pc = "in"
        /\ Same /\ iflag' = iflag /\ irr' = irr /\ fresh' = fresh
        /\ split' = split /\ virtual_counter' = virtual_counter
        /\ GoOn("load")
    BY <1>0, <1>14, TopTyped DEF ClockRead, Same
  <2>2. iflag
    BY <1>0, <2>1, Unmasked DEF Masked
  <2> DEFINE a == Moved(Top, "load")
  <2>3. Replaces(a) /\ a.op = Top.op /\ a.pc = "load"
    BY <1>0, <2>1, GoesOn, MovedTo
  <2> HIDE DEF a
  <2>4. ~Masked(a) /\ a.pc # "store" /\ ~Aside(a)
    BY <2>1, <2>3 DEF Masked, Aside
  <2> QED
    BY <1>0, <1>11, <2>1, <2>2, <2>3, <2>4 DEF TypeOK
<1>15. CASE ClockLoad
  <2> DEFINE a == [Top EXCEPT !.pc = "store", !.loaded = virtual_counter]
  <2>1. /\ Len(stack) > 0 /\ Top \in Activation
        /\ Top.op = "rtc_handler" /\ Top.pc = "load"
        /\ Same /\ iflag' = iflag /\ irr' = irr /\ fresh' = fresh
        /\ split' = split /\ virtual_counter' = virtual_counter
    BY <1>0, <1>15, TopTyped DEF ClockLoad, Same
  <2>2. /\ a \in Activation /\ a.op = "rtc_handler" /\ a.pc = "store"
        /\ a.loaded = virtual_counter
    BY <1>0, <2>1 DEF Activation, TypeOK
  <2>3. stack' = [stack EXCEPT ![Len(stack)] = a]
    BY <1>15 DEF ClockLoad
  <2> HIDE DEF a
  <2>4. Replaces(a)
    BY <1>0, <2>1, <2>2, <2>3, Replaced DEF Replaces
  <2>5. iflag
    BY <1>0, <2>1, Unmasked DEF Masked
  <2>6. ~Masked(a) /\ ~Aside(a) /\ a.op = Top.op
    BY <2>1, <2>2 DEF Masked, Aside
  <2> QED
    BY <1>0, <1>11, <2>1, <2>2, <2>4, <2>5, <2>6 DEF TypeOK
<1>16. CASE Gate \/ Call \/ InvalidCall \/ Return \/ User \/ HaltBase
  <2>1. Len(stack) > 0 /\ Top.op = "program"
    BY <1>0, <1>16, TopTyped DEF Gate, Call, InvalidCall, Return, User, HaltBase
  <2>2. /\ Same /\ irr' = irr /\ fresh' = fresh
        /\ split' = split /\ virtual_counter' = virtual_counter
    BY <1>16 DEF Gate, Call, InvalidCall, Return, User, HaltBase, Same
  <2>3. HaltBase => iflag
    BY <1>0, TopTyped, Unmasked DEF HaltBase, Masked
  <2>4. PICK p \in {"user", "gate", "call", "halt", "out"} :
          /\ GoOn(p)
          /\ iflag' \in BOOLEAN /\ (iflag' <=> p \in {"user", "call", "halt"})
    BY <1>0, <1>16, <2>3
    DEF Gate, Call, InvalidCall, Return, User, HaltBase, TypeOK
  <2> DEFINE a == Moved(Top, p)
  <2>5. Replaces(a) /\ a.op = Top.op /\ a.pc = p
    BY <1>0, <2>1, <2>4, GoesOn, MovedTo
  <2> HIDE DEF a
  <2>6. /\ iflag' <=> ~Masked(a)
        /\ a.op # "rtc_handler"
        /\ Aside(Top)
    BY <2>1, <2>4, <2>5 DEF Masked, Aside
  <2> QED
    BY <1>11, <2>1, <2>2, <2>4, <2>5, <2>6
<1>17. CASE Consume
  <2>1. /\ Len(stack) > 0 /\ Top.op = "program" /\ stack' = stack /\ ~astray
        /\ split' = split /\ irr' = irr /\ fresh' = fresh
    BY <1>0, <1>17, TopTyped DEF Consume, At, Undisturbed
  <2>2. ~split => Alone'
    BY <1>0, <1>1, <2>1, Served0 DEF Alone
  <2> QED
    BY <1>1, <1>2, <1>17, <2>1, <2>2 DEF Consume, Same
<1>18. CASE Exit
  <2>1. PICK i \in Programs : stack' = SubSeq(stack, 1, Left(i))
    BY <1>18 DEF Exit
  <2>2. /\ Len(stack) > 0 /\ Top.pc \in {"call", "halt"} /\ Same
        /\ iflag' = iflag /\ irr' = irr /\ fresh' = fresh /\ split' = split
        /\ virtual_counter' = virtual_counter
    BY <1>0, <1>18, TopTyped DEF Exit, Same
  <2>3. Left(i) \in 0 .. Len(stack)
    BY <1>0, LeftTyped
  <2>4. Drops(Left(i))
    BY <1>0, <2>1, <2>3, DropsN
  <2>5. Flags' /\ Clear'
    BY <1>0, <2>2, <2>3, <2>4, FlagsDrop, ClearDrop DEF Masked
  <2>6. ~split => Alone'
    BY <1>0, <2>2, <2>3, <2>4, AloneDrop
  <2> QED
    BY <2>2, <2>5, <2>6
<1>19. CASE Compute
  <2>1. /\ Len(stack) > 0 /\ Top.op = "program" /\ Top.pc \in {"user", "call"}
        /\ Undisturbed /\ ~astray
    <3>1. PICK pc \in {"user", "call"} : At("program", pc)
      BY <1>19 DEF Compute
    <3> QED
      BY <1>0, <3>1, TopTyped DEF At, Undisturbed
  <2>2. boot >= 5 /\ iflag
    BY <1>0, <2>1, Unmasked DEF Masked
  <2>3. ASSUME ~split PROVE Alone'
    <3>1. Uncounted = {} /\ isr = {}
      BY <2>1, <2>3, Served0
    <3>2. CLOCK \notin irr
      BY <1>0, <2>1, <2>2, <3>1, NoRequest
    <3>3. Uncounted' = {} /\ CLOCK \notin irr'
      BY <1>1, <1>19, <3>1, <3>2 DEF Compute
    <3> QED
      BY <3>3 DEF Alone
  <2> QED
    BY <1>1, <1>2, <1>19, <2>3 DEF Compute, Same
<1>20. CASE Execute
  <2>1. PICK p \in Slots :
          /\ Runs(p, cur_terminal)
          /\ stack' = Append(stack, Program(p, pid))
    BY <1>20 DEF Execute
  <2>2. /\ Len(stack) > 0 /\ Top.op = "program" /\ ~astray
        /\ Top.pc \in {"call", "halt"}
        /\ Same /\ iflag' = iflag /\ irr' = irr /\ fresh' = fresh
        /\ split' = split /\ virtual_counter' = virtual_counter
    <3>1. PICK pc \in {"call", "halt"} : At("program", pc)
      BY <1>20 DEF Execute
    <3> QED
      BY <1>0, <1>20, <3>1, TopTyped DEF Execute, At, Undisturbed, Same
  <2> DEFINE a == Program(p, pid)
  <2>3. a \in Activation /\ a.op = "program" /\ a.pc = "user"
    BY <1>0, StartedProgram DEF TypeOK
  <2>4. stack' = Append(stack, a)
    BY <2>1
  <2> HIDE DEF a
  <2>5. Pushes(a)
    BY <1>0, <2>3, <2>4, PushesA
  <2>6. Flags'
    <3>1. iflag
      BY <1>0, <2>2, Unmasked DEF Masked
    <3> QED
      BY <1>0, <2>2, <2>3, <2>5, <3>1, FlagsPush DEF Masked
  <2>7. Clear'
    <3>1. \A i \in 1 .. Len(stack) - 1 :
            InService(stack[i]) \subseteq {CASCADE, CLOCK}
      <4>1. Len(stack) \in 1 .. Len(stack) /\ Aside(stack[Len(stack)])
        BY <1>0, <2>2 DEF Aside, Top
      <4> QED
        BY <1>0, <4>1 DEF Clear
    <3>2. InService(stack[Len(stack)]) = {}
      BY <2>2 DEF InService, Top
    <3>3. \A i \in 1 .. Len(stack) :
            i \in 1 .. Len(stack) - 1 \/ i = Len(stack)
      BY <1>0
    <3>4. \A i \in 1 .. Len(stack) :
            InService(stack[i]) \subseteq {CASCADE, CLOCK}
      BY <3>1, <3>2, <3>3
    <3> QED
      BY <1>0, <2>5, <3>4, ClearPush
  <2>8. ASSUME ~split PROVE Alone'
    <3>1. Uncounted = {} /\ Alone
      BY <1>0, <2>2, <2>8, Served0
    <3>2. /\ CLOCK \notin irr' \cap fresh'
          /\ irr' \cup fresh' \subseteq irr \cup fresh
      BY <2>2, <3>1 DEF Alone
    <3> QED
      BY <1>0, <2>2, <2>3, <2>5, <3>1, <3>2, AlonePush
  <2> QED
    BY <2>2, <2>6, <2>7, <2>8
<1>21. CASE ExecuteData \/ ExitNowhere \/ Astray
  BY <1>0, <1>1, <1>2, <1>3, <1>21
  DEF ExecuteData, ExitNowhere, Astray, vars, Same, Alone
<1> QED
  BY <1>4, <1>5, <1>6, <1>7, <1>8, <1>10, <1>12, <1>13, <1>14, <1>15,
     <1>16, <1>17, <1>18, <1>19, <1>20, <1>21
  DEF Next, KernelStep, HandlerStep

\* The invariant the count of the clock rests on.
THEOREM CountsKept == Spec => []CountsInv
<1>1. Init => CountsInv
  <2> SUFFICES ASSUME Init PROVE CountsInv
    OBVIOUS
  <2>1. /\ boot = 0 /\ stack = <<>> /\ ~iflag /\ irr = {} /\ isr = {}
    BY DEF Init
  <2>2. AckInv
    BY <2>1, InitTyped DEF AckInv, Acknowledged, Shape
  <2>3. Flags /\ Clear /\ Alone
    BY <2>1 DEF Flags, Clear, Alone, Uncounted, Programs, Activations
  <2> QED
    BY <2>2, <2>3 DEF CountsInv
<1>2. CountsInv /\ [Next]_vars => CountsInv'
  <2> SUFFICES ASSUME CountsInv, [Next]_vars PROVE CountsInv'
    OBVIOUS
  <2>1. CASE Next
    <3>1. TypeOK' /\ Acknowledged' /\ Shape'
      BY <2>1, TypeStep, AckStep DEF CountsInv, AckInv
    <3> QED
      BY <2>1, <3>1, CountsStep DEF CountsInv, AckInv
  <2>2. CASE UNCHANGED vars
    <3>1. AckInv'
      BY <2>2 DEF CountsInv, AckInv, TypeOK, Acknowledged, Shape, vars, pic,
                  devices, clock, processes
    <3>2. Flags' /\ Clear' /\ (~split' => Alone')
      BY <2>2 DEF CountsInv, Flags, Clear, Alone, Uncounted, Programs,
                  Activations, vars, pic, devices, clock, processes
    <3> QED
      BY <3>1, <3>2 DEF CountsInv
  <2> QED
    BY <2>1, <2>2
<1> QED
  BY <1>1, <1>2, PTL DEF Spec

\* A handler of the clock that was interrupted between its load and its store
\* still counts one tick: the increment is one step, as module RTC has it.
THEOREM TicksCounted == Spec => Counts
<1>1. CountsInv /\ [Next]_vars =>
        [\/ virtual_counter' = virtual_counter + 1
         \/ virtual_counter' = 0 /\ Len(stack) \in Programs
         \/ split]_virtual_counter
  <2> SUFFICES ASSUME CountsInv, [Next]_vars,
                      virtual_counter' # virtual_counter, ~split
               PROVE  \/ virtual_counter' = virtual_counter + 1
                      \/ virtual_counter' = 0 /\ Len(stack) \in Programs
    OBVIOUS
  <2>0. TypeOK /\ Alone /\ Len(stack) \in Nat
    BY Depth DEF CountsInv, AckInv
  <2>1. CASE ClockStore
    <3>1. Len(stack) > 0 /\ Top.op = "rtc_handler" /\ Top.pc = "store"
      BY <2>0, <2>1, TopTyped DEF ClockStore
    <3>2. Len(stack) \in Uncounted
      BY <2>0, <3>1, OneUncounted
    <3>3. Top.loaded = virtual_counter
      BY <2>0, <3>1, <3>2 DEF Alone, Top
    <3> QED
      BY <2>1, <3>3 DEF ClockStore, Counted
  <2>2. CASE Consume
    <3>1. Len(stack) > 0 /\ Top.op = "program"
      BY <2>0, <2>2, TopTyped DEF Consume
    <3>2. Len(stack) \in Programs
      BY <2>0, <3>1 DEF Programs, Activations, Top
    <3> QED
      BY <2>2, <3>2 DEF Consume
  <2>3. CASE UNCHANGED vars
    BY <2>3 DEF vars, clock
  <2>4. CASE TimerEdge \/ ClockEdge \/ Boot \/ PitHandler \/ KeyShow
             \/ (\E t \in Consoles : KeySwitch(t) \/ KeyShell(t))
             \/ KeyRead \/ ClockRead \/ ClockLoad
             \/ Gate \/ Call \/ InvalidCall \/ Return \/ User \/ Execute
             \/ ExecuteData \/ HaltBase \/ Exit \/ ExitNowhere \/ Astray
             \/ Compute
    BY <2>4 DEF TimerEdge, ClockEdge, Boot, PitHandler, KeyShow, KeySwitch,
       KeyRead, KeyShell, ClockRead, ClockLoad, Gate, Call, InvalidCall,
       Return, User, Execute, ExecuteData, HaltBase, Exit, ExitNowhere,
       Astray, Compute, clock, vars
  <2>5. ASSUME NEW c \in {"char", "switch"}, KeyPress(c) PROVE FALSE
    BY <2>5 DEF KeyPress, clock
  <2>6. ASSUME NEW d \in Devices, Accept(d) PROVE FALSE
    BY <2>6 DEF Accept, clock
  <2> QED
    BY <2>1, <2>2, <2>3, <2>4, <2>5, <2>6 DEF Next, KernelStep, HandlerStep
<1> QED
  BY <1>1, CountsKept, PTL DEF Counts, Spec
=============================================================================
