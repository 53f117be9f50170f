--------------------------------- MODULE Rtc ---------------------------------
(***************************************************************************)
(* The real-time clock: rtc_open, rtc_read and rtc_write of the programs,  *)
(* and rtc_interrupt.                                                      *)
(*                                                                         *)
(* The registers of the chip are reached through two ports: one holds the  *)
(* number of a register, the other one reads or writes the register that   *)
(* the first one names at that time.  Nothing keeps the clock's interrupt  *)
(* out of a call, nor the keyboard's out of either: a shell that Alt+Fn    *)
(* starts suspends whatever it interrupts until it halts, and uses the     *)
(* same ports.                                                             *)
(***************************************************************************)
EXTENDS Integers, Sequences

CONSTANTS
  Requests,  \* frequencies that programs write
  MaxShells  \* shells that the keyboard starts (2 in the code)

ASSUME RtcAssumption == Requests \subseteq Nat /\ MaxShells \in Nat

(* What is active, each entry on top of what it interrupts.  A program is  *)
(*   user   in user mode                                                   *)
(*   spin   in rtc_read, waiting for int_flag                              *)
(* or in rtc_write, before                                                 *)
(*   get    the read of A, which it has selected                           *)
(*   resel  the second select of A                                         *)
(*   put    the write of A                                                 *)
(* and likewise in rtc_open, for B.  rtc_interrupt is before               *)
(*   rtc    the end of interrupt                                           *)
(*   selC   the select of C                                                *)
(*   readC  the read of C                                                  *)
ProgramPcs == {"user", "spin", "get", "resel", "put",
               "open_get", "open_resel", "open_put"}
ClockPcs == {"rtc", "selC", "readC"}

(* Between the select of a register and the access to it.                  *)
Windows == {"get", "put", "open_get", "open_put", "readC"}

VARIABLES
  index,     \* the register selected by RTC_SELECT_PORT: "A", "B", "C"
  reg,       \* registers A and B, bytes
  pending,   \* register C: an interrupt is pending until C is read
  request,   \* the controller holds a request of the clock
  int_flag,
  stack,     \* what is active, the oldest first
  shells,    \* shells that the keyboard has started
  asked,     \* history: the frequency of the last rtc_write that returned
  sure,      \* history: no one moved the selection under that rtc_write
  spoiled    \* history: someone moved it where the clock is at stake
rvars == <<index, reg, pending, request, int_flag, stack, shells, asked, sure,
           spoiled>>
Histories == <<asked, sure, spoiled>>

(* clock_rate and previous (or regB) are the locals of the call; freq is   *)
(* what it was asked for, hit is who moved the selection under it, and     *)
(* ticked whether int_flag was cleared since rtc_read set it.              *)
Idle(pc) == [pc |-> pc, clock_rate |-> 0, previous |-> 0, freq |-> 0,
             hit |-> {}, ticked |-> FALSE]

Supported == {2, 4, 8, 16, 32, 64, 128, 256}

(* The switch of rtc_write: SET_2 = 15 down to SET_256 = 8, SET_2 for      *)
(* everything else.                                                        *)
RateOf(freq) ==
  IF freq \in Supported THEN CHOOSE r \in 8 .. 15 : 2^(16 - r) = freq ELSE 15

Low(byte) == byte % 16
HighHalf(byte) == 16 * (byte \div 16)
Bit6(byte) == (byte \div 64) % 2 = 1
SetBit6(byte) == IF Bit6(byte) THEN byte ELSE byte + 64

(* The clock counts with 32768 Hz and interrupts.                          *)
Runs == (reg.A \div 16) % 8 = 2 /\ Bit6(reg.B)

(* After rtc_init: 1024 Hz, register B was used last.                      *)
Init ==
  /\ index = "B"
  /\ reg = [A |-> 38, B |-> 66]
  /\ pending = FALSE /\ request = FALSE
  /\ int_flag = FALSE
  /\ stack = <<Idle("user")>>
  /\ shells = 0
  /\ asked = 1024 /\ sure = TRUE /\ spoiled = FALSE

-----------------------------------------------------------------------------
(* The controller passes the request on once every handler has sent the    *)
(* end of interrupt, and the CPU takes it before its next instruction.     *)
TickPassed == request /\ \A i \in 1 .. Len(stack) : stack[i].pc # "rtc"

TopAct == stack[Len(stack)]
Running(pc) == ~TickPassed /\ TopAct.pc = pc
Become(act) == stack' = [stack EXCEPT ![Len(stack)] = act]
Advance(pc) == Become([TopAct EXCEPT !.pc = pc])

(* The select port, after which act is on top: whoever is suspended        *)
(* between its own select and its access will meet another register.       *)
SelectReg(r, act) ==
  LET n == Len(stack)
      who(pc) == IF act.pc = "readC" THEN pc ELSE "program"
  IN  /\ index' = r
      /\ stack' = [i \in 1 .. n |->
           IF i = n THEN act
           ELSE IF stack[i].pc \in Windows
             THEN [stack[i] EXCEPT !.hit = @ \cup {who(stack[i].pc)}]
           ELSE stack[i]]

(* The data port.  Reading C ends the interrupt; C cannot be written.      *)
InByte == CASE index = "C" -> IF pending THEN 192 ELSE 0
            [] OTHER -> reg[index]
AfterRead == pending' = (pending /\ index # "C")
OutByte(byte) ==
  reg' = IF index = "C" THEN reg ELSE [reg EXCEPT ![index] = byte]

-----------------------------------------------------------------------------
(* Up to the first select of A nothing is touched.                         *)
WriteStart(freq) ==
  /\ Running("user")
  /\ SelectReg("A", [Idle("get") EXCEPT !.clock_rate = RateOf(freq), !.freq = freq])
  /\ UNCHANGED <<reg, pending, request, int_flag, shells, Histories>>

WriteGet ==
  /\ Running("get")
  /\ Become([TopAct EXCEPT !.pc = "resel", !.previous = HighHalf(InByte)])
  /\ AfterRead
  /\ UNCHANGED <<index, reg, request, int_flag, shells, Histories>>

(* mutant: the register is not selected again        *)
WriteSelectAgainNot ==
  /\ Running("resel")
  /\ Advance("put")
  /\ UNCHANGED <<index, reg, pending, request, int_flag, shells, Histories>>

WriteSelectAgain ==
  /\ Running("resel")
  /\ SelectReg("A", [TopAct EXCEPT !.pc = "put"])
  /\ UNCHANGED <<reg, pending, request, int_flag, shells, Histories>>

(* And rtc_write returns.                                                  *)
WritePut ==
  LET hit == TopAct.hit IN
  /\ Running("put")
  /\ OutByte(TopAct.previous + TopAct.clock_rate)
  /\ Become(Idle("user"))
  /\ asked' = TopAct.freq
  /\ sure' = ("put" \notin hit /\ "program" \notin hit)
  /\ spoiled' = (spoiled \/ "get" \in hit \/ "program" \in hit)
  /\ UNCHANGED <<index, pending, request, int_flag, shells>>

-----------------------------------------------------------------------------
(* rtc_open is rtc_init: bit 6 of register B.                              *)
OpenStart ==
  /\ Running("user")
  /\ SelectReg("B", Idle("open_get"))
  /\ UNCHANGED <<reg, pending, request, int_flag, shells, Histories>>

OpenGet ==
  /\ Running("open_get")
  /\ Become([TopAct EXCEPT !.pc = "open_resel", !.previous = InByte])
  /\ AfterRead
  /\ UNCHANGED <<index, reg, request, int_flag, shells, Histories>>

OpenSelectAgain ==
  /\ Running("open_resel")
  /\ SelectReg("B", [TopAct EXCEPT !.pc = "open_put"])
  /\ UNCHANGED <<reg, pending, request, int_flag, shells, Histories>>

OpenPut ==
  LET hit == TopAct.hit IN
  /\ Running("open_put")
  /\ OutByte(SetBit6(TopAct.previous))
  /\ Become(Idle("user"))
  /\ sure' = (sure /\ "program" \notin hit)
  /\ spoiled' = (spoiled \/ "program" \in hit)
  /\ UNCHANGED <<index, pending, request, int_flag, shells, asked>>

-----------------------------------------------------------------------------
(* mutant: int_flag is not set                       *)
ReadStartNoFlag ==
  /\ Running("user")
  /\ Advance("spin")
  /\ UNCHANGED <<index, reg, pending, request, int_flag, shells, Histories>>

ReadStart ==
  /\ Running("user")
  /\ int_flag' = TRUE
  /\ Advance("spin")
  /\ UNCHANGED <<index, reg, pending, request, shells, Histories>>

(* while(int_flag);                                                        *)
ReadSpin == Running("spin") /\ int_flag /\ UNCHANGED rvars

ReadEnd ==
  /\ Running("spin")
  /\ ~int_flag
  /\ Become(Idle("user"))
  /\ UNCHANGED <<index, reg, pending, request, int_flag, shells, Histories>>

-----------------------------------------------------------------------------
(* The chip: a period ends.  While C is not read, nothing new is signalled.*)
Tick ==
  /\ Runs
  /\ ~pending
  /\ pending' = TRUE /\ request' = TRUE
  /\ UNCHANGED <<index, reg, int_flag, stack, shells, Histories>>

RtcTake ==
  /\ TickPassed
  /\ request' = FALSE
  /\ stack' = Append(stack, Idle("rtc"))
  /\ UNCHANGED <<index, reg, pending, int_flag, shells, Histories>>

(* mutant: int_flag is not cleared                   *)
RtcEndNoFlag ==
  /\ Running("rtc")
  /\ Advance("selC")
  /\ UNCHANGED <<index, reg, pending, request, int_flag, shells, Histories>>

(* int_flag = 0, whoever waits for it, and the end of interrupt.           *)
RtcEnd ==
  /\ Running("rtc")
  /\ int_flag' = FALSE
  /\ stack' = [i \in 1 .. Len(stack) |->
       IF i = Len(stack) THEN Idle("selC")
       ELSE IF stack[i].pc = "spin" THEN [stack[i] EXCEPT !.ticked = TRUE]
       ELSE stack[i]]
  /\ UNCHANGED <<index, reg, pending, request, shells, Histories>>

RtcSelect ==
  /\ Running("selC")
  /\ SelectReg("C", Idle("readC"))
  /\ UNCHANGED <<reg, pending, request, int_flag, shells, Histories>>

(* Reads the register that is selected now, and returns.                   *)
RtcRead ==
  /\ Running("readC")
  /\ AfterRead
  /\ spoiled' = (spoiled \/ TopAct.hit # {})
  /\ stack' = SubSeq(stack, 1, Len(stack) - 1)
  /\ UNCHANGED <<index, reg, request, int_flag, shells, asked, sure>>

-----------------------------------------------------------------------------
(* keyboard_interrupt executes a shell: a program on top of anything.      *)
StartShell ==
  /\ shells < MaxShells
  /\ shells' = shells + 1
  /\ stack' = Append(stack, Idle("user"))
  /\ UNCHANGED <<index, reg, pending, request, int_flag, Histories>>

(* It halts, and what it interrupted goes on.                              *)
EndShell ==
  /\ Running("user")
  /\ Len(stack) > 1
  /\ stack' = SubSeq(stack, 1, Len(stack) - 1)
  /\ UNCHANGED <<index, reg, pending, request, int_flag, shells, Histories>>

Program == \/ WriteGet \/ WriteSelectAgain \/ WritePut
           \/ OpenGet \/ OpenSelectAgain \/ OpenPut \/ ReadEnd

RtcInterrupt == RtcTake \/ RtcEnd \/ RtcSelect \/ RtcRead

Next == \/ \E freq \in Requests : WriteStart(freq)
        \/ OpenStart \/ ReadStart \/ ReadSpin
        \/ Program
        \/ Tick \/ RtcInterrupt
        \/ StartShell \/ EndShell

(* The chip keeps counting, and the CPU goes on in the kernel: the clock   *)
(* interrupts at most 1024 times a second, so a call makes steps between   *)
(* its interrupts.  Nothing forces a program to call, or a shell to halt.  *)
RtcSpec == /\ Init /\ [][Next]_rvars
           /\ WF_rvars(Tick \/ RtcInterrupt) /\ SF_rvars(Program)

-----------------------------------------------------------------------------
(* The clock has the frequency that the last rtc_write to return was asked *)
(* for (if it is a supported one), unless rtc_interrupt selected register  *)
(* C right before that call's write, or a program under a shell used the   *)
(* ports inside a call.  The clock runs unless rtc_interrupt came right    *)
(* before a call's read of A, or such a program inside a call or right     *)
(* before rtc_interrupt's read of C.                                       *)
RateSet ==
  /\ sure /\ asked \in Supported => 2^(16 - Low(reg.A)) = asked
  /\ Runs \/ spoiled

(* rtc_read does not return before int_flag was cleared after its call.    *)
ReadFresh ==
  [][\A i \in 1 .. Len(stack) :
       stack[i].pc = "spin" /\ stack'[i].pc # "spin" => stack[i].ticked]_rvars

(* Why no interrupt comes for the program at place d: the clock has been   *)
(* stopped, or its handler waits under the shell of that program.          *)
Stopped(d) ==
  spoiled \/ \E i \in 1 .. Len(stack) : i < d /\ stack[i].pc \in ClockPcs

ShellOn(d) == \E i \in d + 1 .. Len(stack) : stack[i].pc \in ProgramPcs

(* rtc_read returns, unless the clock has stopped or a shell is started on *)
(* top of it.                                                              *)
ReadReturns ==
  \A d \in 1 .. MaxShells + 1 :
    (Len(stack) = d /\ stack[d].pc = "spin") ~>
      (Len(stack) = d /\ stack[d].pc = "user") \/ ShellOn(d) \/ Stopped(d)

(* rtc_write sets the frequency that it is asked for.                      *)
RateWritten == asked \in Supported => 2^(16 - Low(reg.A)) = asked

=============================================================================
