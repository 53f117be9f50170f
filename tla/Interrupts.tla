----------------------------- MODULE Interrupts -----------------------------
(***************************************************************************)
(* From the boot of the kernel on: the interrupt controllers, the IDT, and *)
(* the handlers of the keyboard and of the clock, in steps that end where  *)
(* another interrupt makes a difference.                                   *)
(*                                                                         *)
(* All gates are trap gates: a handler runs with interrupts enabled, and   *)
(* only the controllers keep a second interrupt of its kind out, until it  *)
(* sends the end of interrupt.  The keyboard handler may execute a shell,  *)
(* which suspends it, and the handler it interrupted, until that shell     *)
(* halts.  An exception prints a message and loops with interrupts off.    *)
(***************************************************************************)
EXTENDS Integers, Sequences

CONSTANT MaxFrames    \* bound on handlers that interrupt one another

ASSUME InterruptAssumption == MaxFrames \in Nat \ {0}

VARIABLES
  boot,                     \* the call that entry makes next, or "shell"
  idt,                      \* vector -> handler
  remapped,                 \* the controllers use the vectors from 32 on
  master_mask, slave_mask,  \* numbers of the bits that are set
  irr, isr,                 \* requested, and in service (2 is the slave)
  IF_flag,                  \* interrupt flag of the CPU
  frames,                   \* handlers that are active: where each one is
  data_port,                \* byte in the keyboard controller, or "none"
  reg_c,                    \* the clock has an interrupt pending
  select,                   \* register of the clock that is selected
  periodic,                 \* bit 6 of register B: the clock interrupts
  terminal_used,            \* terminals whose shell was started
  frozen,                   \* an exception was taken
  disturbed                 \* history: a program selected a register while a
                            \* handler was about to read register C
ivars == <<boot, idt, remapped, master_mask, slave_mask, irr, isr, IF_flag,
           frames, data_port, reg_c, select, periodic, terminal_used, frozen,
           disturbed>>
Pic == <<idt, remapped, master_mask, slave_mask>>
ClockState == <<reg_c, select, periodic, disturbed>>

KEYBOARD_IRQ == 1
SLAVE_IRQ == 2
RTC_IRQ == 8
Irqs == {KEYBOARD_IRQ, RTC_IRQ}

(* Makes and breaks of Alt+F2 and Alt+F3, and all other bytes.             *)
Bytes == {"F2", "F3", "other"}

IInit ==
  /\ boot = "set_idt"
  /\ idt = <<>>
  /\ remapped = FALSE
  /\ master_mask = 0 .. 7 /\ slave_mask = 0 .. 7
  /\ irr = {} /\ isr = {}
  /\ IF_flag = FALSE
  /\ frames = <<>>
  /\ data_port = "none"
  /\ reg_c = FALSE /\ select = "none" /\ periodic = FALSE
  /\ terminal_used = {}
  /\ frozen = FALSE
  /\ disturbed = FALSE

-----------------------------------------------------------------------------
(* The 8259 controllers: a request is passed on unless it is masked or one *)
(* of the same or a higher priority is in service.                         *)
Unmasked(irq) ==
  IF irq < 8 THEN irq \notin master_mask
             ELSE irq - 8 \notin slave_mask /\ SLAVE_IRQ \notin master_mask
Blocks(irq) == IF irq < 8 THEN {irq} ELSE {KEYBOARD_IRQ, SLAVE_IRQ, irq}
Passed(irq) == irq \in irr /\ Unmasked(irq) /\ Blocks(irq) \cap isr = {}
Vector(irq) == IF remapped THEN 32 + irq ELSE IF irq < 8 THEN 8 + irq ELSE 104 + irq

(* A pending interrupt is taken before the next instruction.               *)
Pending == IF_flag /\ \E irq \in Irqs : Passed(irq)
Cpu == ~frozen /\ ~Pending
At(pc) == Cpu /\ frames # <<>> /\ frames[Len(frames)] = pc
Goto(pc) == frames' = [frames EXCEPT ![Len(frames)] = pc]

Take(irq) ==
  /\ ~frozen /\ IF_flag
  /\ Passed(irq)
  /\ irq = RTC_IRQ => ~Passed(KEYBOARD_IRQ)
  /\ irr' = irr \ {irq}
  /\ isr' = isr \cup (IF irq < 8 THEN {irq} ELSE {SLAVE_IRQ, irq})
  /\ frames' = Append(frames, idt[Vector(irq)])
  /\ UNCHANGED <<boot, Pic, IF_flag, data_port, ClockState, terminal_used, frozen>>

-----------------------------------------------------------------------------
(* The devices.  Each of them signals an edge once and waits for its byte, *)
(* or for register C, to be read.                                          *)
KeyByte(b) ==
  /\ remapped
  /\ data_port = "none"
  /\ Len(frames) < MaxFrames
  /\ data_port' = b
  /\ irr' = irr \cup {KEYBOARD_IRQ}
  /\ UNCHANGED <<boot, Pic, isr, IF_flag, frames, ClockState, terminal_used, frozen>>

ClockTick ==
  /\ periodic
  /\ ~reg_c
  /\ Len(frames) < MaxFrames
  /\ reg_c' = TRUE
  /\ irr' = irr \cup {RTC_IRQ}
  /\ UNCHANGED <<boot, Pic, isr, IF_flag, frames, data_port, select, periodic,
                 terminal_used, frozen, disturbed>>

-----------------------------------------------------------------------------
(* Bits of the byte that enable_irq shifts into place.                     *)
Shifted[n \in 0 .. 8] == IF n = 0 THEN 254 ELSE (2 * Shifted[n - 1] + 1) % 256
Bits(byte) == {b \in 0 .. 7 : (byte \div 2^b) % 2 = 1}

EnableIrq(irq) ==
  IF irq <= 7
    THEN /\ master_mask' = master_mask \cap Bits(Shifted[irq])
         /\ UNCHANGED slave_mask
    ELSE /\ slave_mask' = slave_mask \cap Bits(Shifted[irq - 8])
         /\ UNCHANGED master_mask

(* The calls of entry, in their order.  Later ones run with interrupts on. *)
Boot(call, then) ==
  /\ Cpu /\ frames = <<>>
  /\ boot = call
  /\ boot' = then
  /\ UNCHANGED <<isr, frames, data_port, reg_c, frozen, disturbed>>

SetIdt ==
  /\ Boot("set_idt", "i8259_init")
  /\ idt' = [v \in (0 .. 14) \cup (16 .. 21) \cup {33, 40, 128} |->
               CASE v = 33 -> "keyboard_handler" [] v = 40 -> "rtc_handler"
                 [] v = 128 -> "system_call_handler" [] OTHER -> "exception"]
  /\ UNCHANGED <<remapped, master_mask, slave_mask, irr, IF_flag, select,
                 periodic, terminal_used>>

I8259Init ==
  /\ Boot("i8259_init", "keyboard_init")
  /\ remapped' = TRUE
  /\ irr' = {}
  /\ EnableIrq(SLAVE_IRQ)
  /\ UNCHANGED <<idt, IF_flag, select, periodic, terminal_used>>

KeyboardInit ==
  /\ Boot("keyboard_init", "rtc_init")
  /\ EnableIrq(KEYBOARD_IRQ)
  /\ UNCHANGED <<idt, remapped, irr, IF_flag, select, periodic, terminal_used>>

RtcInit ==
  /\ Boot("rtc_init", "sti")
  /\ EnableIrq(RTC_IRQ)
  /\ select' = "B"
  /\ periodic' = TRUE
  /\ UNCHANGED <<idt, remapped, irr, IF_flag, terminal_used>>

BootSti ==
  /\ Boot("sti", "sys_init")
  /\ IF_flag' = TRUE
  /\ UNCHANGED <<Pic, irr, select, periodic, terminal_used>>

SysInit ==
  /\ Boot("sys_init", "terminal_init")
  /\ UNCHANGED <<Pic, irr, IF_flag, select, periodic, terminal_used>>

(* Ends with the execution of the first shell.                             *)
TerminalInit ==
  /\ Boot("terminal_init", "shell")
  /\ terminal_used' = {1}
  /\ UNCHANGED <<Pic, irr, IF_flag, select, periodic>>

-----------------------------------------------------------------------------
(* mutant: only the slave hears of the end          *)
SendEoiSlaveOnly(irq) ==
  /\ isr' = isr \ {irq}
  /\ UNCHANGED <<boot, Pic, irr, IF_flag, data_port, ClockState, terminal_used, frozen>>

(* send_eoi: a specific end of interrupt, to the slave and then also to    *)
(* the line of the slave at the master.                                    *)
SendEoi(irq) ==
  /\ isr' = isr \ (IF irq < 8 THEN {irq} ELSE {irq, SLAVE_IRQ})
  /\ UNCHANGED <<boot, Pic, irr, IF_flag, data_port, ClockState, terminal_used, frozen>>

(* mutant: no end of interrupt                      *)
KbdEoiMissing ==
  /\ At("keyboard_handler")
  /\ Goto("kbd_read")
  /\ UNCHANGED <<boot, Pic, irr, isr, IF_flag, data_port, ClockState, terminal_used,
                 frozen>>

KbdEoi == At("keyboard_handler") /\ SendEoi(KEYBOARD_IRQ) /\ Goto("kbd_read")

Starts(b) == \/ b = "F2" /\ 2 \notin terminal_used
             \/ b = "F3" /\ 3 \notin terminal_used

(* Reads the byte; the first Alt+F2 and Alt+F3 execute a shell (or fail to *)
(* find a slot for it).  Everything else is done when the read is.         *)
KbdRead ==
  /\ At("kbd_read")
  /\ data_port' = "none"
  /\ terminal_used' = terminal_used \cup
       (IF Starts(data_port) THEN {IF data_port = "F2" THEN 2 ELSE 3} ELSE {})
  /\ \/ Starts(data_port) /\ Goto("shell")
     \/ Goto("iret")
  /\ UNCHANGED <<boot, Pic, irr, isr, IF_flag, ClockState, frozen>>

RtcEoi == At("rtc_handler") /\ SendEoi(RTC_IRQ) /\ Goto("rtc_select")

(* mutant: the register is not selected             *)
RtcSelectCNot ==
  /\ At("rtc_select")
  /\ Goto("rtc_read")
  /\ UNCHANGED <<boot, Pic, irr, isr, IF_flag, data_port, ClockState, terminal_used,
                 frozen>>

RtcSelectC ==
  /\ At("rtc_select")
  /\ select' = "C"
  /\ Goto("rtc_read")
  /\ UNCHANGED <<boot, Pic, irr, isr, IF_flag, data_port, reg_c, periodic,
                 terminal_used, frozen, disturbed>>

(* Reads the register that is selected now.                                *)
RtcReadC ==
  /\ At("rtc_read")
  /\ reg_c' = (reg_c /\ select # "C")
  /\ Goto("iret")
  /\ UNCHANGED <<boot, Pic, irr, isr, IF_flag, data_port, select, periodic,
                 terminal_used, frozen, disturbed>>

Iret ==
  /\ At("iret")
  /\ frames' = SubSeq(frames, 1, Len(frames) - 1)
  /\ UNCHANGED <<boot, Pic, irr, isr, IF_flag, data_port, ClockState,
                 terminal_used, frozen>>

Handler == KbdEoi \/ KbdRead \/ RtcEoi \/ RtcSelectC \/ RtcReadC \/ Iret

-----------------------------------------------------------------------------
(* A program runs: the first shell or one that the keyboard handler        *)
(* executed, or a program that one of them executed.                       *)
ProgramRuns == Cpu /\ IF frames = <<>> THEN boot = "shell"
                                   ELSE frames[Len(frames)] = "shell"

(* terminal_write and sys_halt turn interrupts off and on again; rtc_write *)
(* selects register A.                                                     *)
Cli ==
  /\ ProgramRuns
  /\ IF_flag
  /\ IF_flag' = FALSE
  /\ UNCHANGED <<boot, Pic, irr, isr, frames, data_port, ClockState, terminal_used,
                 frozen>>

Sti ==
  /\ ProgramRuns
  /\ ~IF_flag
  /\ IF_flag' = TRUE
  /\ UNCHANGED <<boot, Pic, irr, isr, frames, data_port, ClockState, terminal_used,
                 frozen>>

(* sys_halt of a shell that the keyboard handler executed: back into it.   *)
HaltShell ==
  /\ ProgramRuns
  /\ ~IF_flag
  /\ frames # <<>>
  /\ IF_flag' = TRUE
  /\ Goto("iret")
  /\ UNCHANGED <<boot, Pic, irr, isr, data_port, ClockState, terminal_used, frozen>>

RtcWriteSelect ==
  /\ ProgramRuns
  /\ IF_flag
  /\ select' = "A"
  /\ disturbed' = (disturbed \/ \E i \in 1 .. Len(frames) : frames[i] = "rtc_read")
  /\ UNCHANGED <<boot, Pic, irr, isr, IF_flag, frames, data_port, reg_c,
                 periodic, terminal_used, frozen>>

(* A program causes an exception: cli, a message, and a loop.              *)
Exception ==
  /\ ProgramRuns
  /\ frozen' = TRUE
  /\ IF_flag' = FALSE
  /\ UNCHANGED <<boot, Pic, irr, isr, frames, data_port, ClockState, terminal_used>>

Loop == frozen /\ UNCHANGED ivars

Startup == SetIdt \/ I8259Init \/ KeyboardInit \/ RtcInit \/ BootSti \/ SysInit
           \/ TerminalInit

INext == \/ \E irq \in Irqs : Take(irq)
         \/ \E b \in Bytes : KeyByte(b)
         \/ ClockTick
         \/ Startup \/ Handler
         \/ Cli \/ Sti \/ HaltShell \/ RtcWriteSelect \/ Exception \/ Loop

(* The CPU takes interrupts and goes on in handlers, in the boot and from  *)
(* cli to sti.  Bytes from the keyboard are not infinitely fast: a handler *)
(* that they interrupt, at any depth, makes a step between two of them.    *)
ISteps == Startup \/ Handler \/ Sti \/ \E irq \in Irqs : Take(irq)
ISpec == /\ IInit /\ [][INext]_ivars
         /\ WF_ivars(ISteps)
         /\ \A d \in 1 .. MaxFrames : SF_ivars(Len(frames) = d /\ Handler)

-----------------------------------------------------------------------------
(* Where a handler has not sent the end of interrupt yet.                  *)
InService(pc) == CASE pc = "keyboard_handler" -> {KEYBOARD_IRQ}
                   [] pc = "rtc_handler" -> {SLAVE_IRQ, RTC_IRQ}
                   [] OTHER -> {}

(* An interrupt that can be taken has its handler in the IDT at the vector *)
(* that the controllers send, whenever during the boot it comes, and what  *)
(* is in service is what handlers have not ended yet.                      *)
Served ==
  /\ \A irq \in Irqs : IF_flag /\ Unmasked(irq) =>
       /\ Vector(irq) \in DOMAIN idt
       /\ idt[Vector(irq)] = IF irq < 8 THEN "keyboard_handler" ELSE "rtc_handler"
  /\ isr = UNION {InService(frames[i]) : i \in 1 .. Len(frames)}
  /\ boot = "shell" => \A irq \in Irqs : Unmasked(irq)

(* Every byte of the keyboard is read, also under a shell that suspends    *)
(* the handler of an earlier one, unless an exception stops the kernel.    *)
KeyboardAlive == data_port # "none" ~> data_port = "none" \/ frozen

(* The clock handler is suspended under a shell.                           *)
ClockSuspended ==
  \E i, j \in 1 .. Len(frames) :
    i < j /\ frames[i] \in {"rtc_handler", "rtc_select", "rtc_read"}
          /\ frames[j] = "shell"

(* Register C is read after every interrupt of the clock, so that the next *)
(* one can come.  It is not, as long as a shell suspends the handler, and  *)
(* for ever, if a program under that shell selects another register.       *)
ClockAlive == reg_c ~> ~reg_c \/ ClockSuspended \/ disturbed \/ frozen

=============================================================================
