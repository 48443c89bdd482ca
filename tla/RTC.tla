-------------------------------- MODULE RTC --------------------------------
(***************************************************************************)
(* The virtualised real-time clock (rtc.c) and the programs that read it.  *)
(* The chip ticks at a fixed rate; a program asks for a lower one with     *)
(* rtc_write, and rtc_read spins, with interrupts enabled, until the       *)
(* handler has counted virtual_frequency ticks.  The counter and the       *)
(* divisor are globals that all programs share.                            *)
(*                                                                         *)
(* Programs nest (module ProcessControl): the one at the top runs, those   *)
(* below it are suspended in execute or, after a terminal switch, wherever *)
(* the keyboard interrupt found them.                                      *)
(***************************************************************************)
EXTENDS Integers

CONSTANTS
  Requests,   \* the values programs write to the clock
  Half,       \* an int runs from -Half to Half - 1 (2^31 in the code)
  MaxCount,   \* bound: ticks nobody has consumed
  MaxDepth,   \* bound: programs nested
  Preempt     \* whether a terminal switch may suspend a program in rtc_read

ASSUME ClockAssumption ==
  /\ Requests \subseteq Nat
  /\ Half \in Nat /\ Half > 512
  /\ MaxCount \in Nat
  /\ MaxDepth \in Nat \ {0}
  /\ Preempt \in BOOLEAN

\* FREQ1 .. FREQ10, and the divisor rtc_write looks up for each of them.
FREQ1 == 1024
FREQ10 == 2
RateTable == [hz \in {1024, 512, 256, 128, 64, 32, 16, 8, 4, 2} |->
                CASE hz = 1024 -> 1
                  [] hz = 512 -> 2
                  [] hz = 256 -> 4
                  [] hz = 128 -> 8
                  [] hz = 64 -> 16
                  [] hz = 32 -> 32
                  [] hz = 16 -> 64
                  [] hz = 8 -> 128
                  [] hz = 4 -> 256
                  [] hz = 2 -> 512]
Divisors == {1, 2, 4, 8, 16, 32, 64, 128, 256, 512}

VARIABLES
  virtual_counter,    \* ticks since a read last returned
  virtual_frequency,  \* ticks a read waits for
  depth,              \* programs nested; programs[depth] runs
  programs            \* what each of them does with the clock

clockVars == <<virtual_counter, virtual_frequency, depth, programs>>

\* waited and need are history: the ticks since the program called rtc_read,
\* and the divisor at that call.
Program == [opened: BOOLEAN, pc: {"user", "wait", "reset"},
            waited: Nat, need: Divisors]

Fresh == [opened |-> FALSE, pc |-> "user", waited |-> 0, need |-> 1]

ClockTypeOK ==
  /\ virtual_counter \in -Half .. Half - 1
  /\ virtual_frequency \in Divisors
  /\ depth \in 1 .. MaxDepth
  /\ programs \in [1 .. MaxDepth -> Program]

ClockInit ==
  /\ virtual_counter = 0
  /\ virtual_frequency = 16
  /\ depth = 1
  /\ programs = [d \in 1 .. MaxDepth |-> Fresh]

-----------------------------------------------------------------------------
Top == programs[depth]
SetTop(p) == programs' = [programs EXCEPT ![depth] = p]

\* Mutant: the handler starts counting again when a period is complete.
Increment_Restarts(n) == IF n >= virtual_frequency THEN 0 ELSE n + 1

\* Signed overflow wraps.
Increment(n) == IF n = Half - 1 THEN -Half ELSE n + 1

\* rtc_handler.  The history counts the tick for every waiting program.
Tick ==
  /\ virtual_counter < MaxCount
  /\ virtual_counter' = Increment(virtual_counter)
  /\ programs' = [d \in 1 .. MaxDepth |->
                    IF d <= depth /\ programs[d].pc = "wait"
                    THEN [programs[d] EXCEPT !.waited = @ + 1]
                    ELSE programs[d]]
  /\ UNCHANGED <<virtual_frequency, depth>>

\* open("rtc"): open_function fills the descriptor and does not call rtc_open.
Open ==
  /\ Top.pc = "user"
  /\ ~Top.opened
  /\ SetTop([Top EXCEPT !.opened = TRUE])
  /\ UNCHANGED <<virtual_counter, virtual_frequency, depth>>

\* rtc_close does nothing.
Close ==
  /\ Top.pc = "user"
  /\ Top.opened
  /\ SetTop([Top EXCEPT !.opened = FALSE])
  /\ UNCHANGED <<virtual_counter, virtual_frequency, depth>>

\* Mutant: the divisor is computed.
Rate_Computed(hz) == FREQ1 \div hz

\* A power of two is looked up; another value sets the highest rate.
Rate(hz) == IF hz \in DOMAIN RateTable THEN RateTable[hz] ELSE 1

\* rtc_write: a value in range sets the rate, though the call returns -1 when
\* it is no power of two; the rest returns -1.
RtcWrite(hz) ==
  /\ Top.pc = "user"
  /\ Top.opened
  /\ virtual_frequency' = IF hz \in FREQ10 .. FREQ1 THEN Rate(hz)
                                                   ELSE virtual_frequency
  /\ UNCHANGED <<virtual_counter, depth, programs>>

\* rtc_read is called.
ReadCall ==
  /\ Top.pc = "user"
  /\ Top.opened
  /\ SetTop([Top EXCEPT !.pc = "wait", !.waited = 0,
                        !.need = virtual_frequency])
  /\ UNCHANGED <<virtual_counter, virtual_frequency, depth>>

\* Mutant: the loop waits for any tick.
ReadPass_AnyTick ==
  /\ Top.pc = "wait"
  /\ virtual_counter >= 1
  /\ SetTop([Top EXCEPT !.pc = "reset"])
  /\ UNCHANGED <<virtual_counter, virtual_frequency, depth>>

\* The loop finds enough ticks counted ...
ReadPass ==
  /\ Top.pc = "wait"
  /\ virtual_counter >= virtual_frequency
  /\ SetTop([Top EXCEPT !.pc = "reset"])
  /\ UNCHANGED <<virtual_counter, virtual_frequency, depth>>

\* Mutant: the loop is entered again with the counter cleared.
ReadReset_Again ==
  /\ Top.pc = "reset"
  /\ virtual_counter' = 0
  /\ SetTop([Top EXCEPT !.pc = "wait", !.waited = 0])
  /\ UNCHANGED <<virtual_frequency, depth>>

\* ... and the counter is cleared, with whatever ticks came in between.
ReadReset ==
  /\ Top.pc = "reset"
  /\ virtual_counter' = 0
  /\ SetTop([Top EXCEPT !.pc = "user", !.waited = 0, !.need = 1])
  /\ UNCHANGED <<virtual_frequency, depth>>

\* A program starts on top of the running one: by execute, from user mode, or
\* by a terminal switch, wherever the running one is.
Start ==
  /\ depth < MaxDepth
  /\ Top.pc = "user" \/ Preempt
  /\ depth' = depth + 1
  /\ programs' = [programs EXCEPT ![depth + 1] = Fresh]
  /\ UNCHANGED <<virtual_counter, virtual_frequency>>

\* The program ends, and the one below it goes on.
End ==
  /\ depth > 1
  /\ Top.pc = "user"
  /\ depth' = depth - 1
  /\ UNCHANGED <<virtual_counter, virtual_frequency, programs>>

Reading == ReadPass \/ ReadReset

ClockNext ==
  \/ Tick
  \/ Open \/ Close
  \/ \E hz \in Requests : RtcWrite(hz)
  \/ ReadCall \/ Reading
  \/ Start \/ End

ClockSpec == ClockInit /\ [][ClockNext]_clockVars

\* The chip ticks, and the processor goes on executing the loop.
Fairness == WF_clockVars(Tick) /\ WF_clockVars(Reading)
FairSpec == ClockSpec /\ Fairness

-----------------------------------------------------------------------------
\* "When handler called enough times, read is done": a program whose loop
\* would go round again has been waiting for fewer ticks than the divisor it
\* asked for, whatever was counted, written or read before.
WaitBound ==
  Top.pc = "wait" /\ virtual_counter < virtual_frequency
    => Top.waited < Top.need

\* A read returns only when a whole period of ticks has been counted that no
\* other read has consumed.
WholePeriod ==
  [][ReadReset => virtual_counter >= Top.need]_clockVars

\* Why WaitBound holds while no program is suspended in rtc_read: only the
\* running program waits, and nothing is subtracted from what it has seen.
Counting ==
  /\ virtual_counter >= 0
  /\ \A d \in 1 .. depth - 1 : programs[d].pc = "user"
  /\ Top.pc # "user" => Top.need = virtual_frequency
  /\ Top.pc = "wait" => virtual_counter >= Top.waited
  /\ Top.pc = "reset" => virtual_counter >= virtual_frequency

\* Every read that is called returns.
ReadReturns == (Top.pc = "wait") ~> (Top.pc = "user")

\* "Wait for RTC tick" (ece391pingpong.c): a tick comes between the call of a
\* read and its return.  Ticks counted earlier will do, so it does not hold.
WaitsForTick == [][ReadReset => Top.waited > 0]_clockVars

\* "Opens the rtc and initializes the rate": to what rtc_open says.  Nothing
\* calls rtc_open, so it does not hold.
OpenSetsRate == [][Open => virtual_frequency' = 1]_clockVars
=============================================================================
