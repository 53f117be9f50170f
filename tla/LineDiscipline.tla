--------------------------- MODULE LineDiscipline ---------------------------
(***************************************************************************)
(* How lines get from the keyboard to a program: keyboard_buffer, which    *)
(* keyboard_interrupt fills and terminal_read empties, and its copies for  *)
(* the terminals that are not shown.  What the same handler does to the    *)
(* screen is in module Screen.                                             *)
(*                                                                         *)
(* terminal_read runs with interrupts enabled and without any lock, so the *)
(* model has a step per statement of it, between which a key may be        *)
(* pressed.  The process that reads is the newest one (see ProcessControl) *)
(* whichever terminal is shown.                                            *)
(***************************************************************************)
EXTENDS TerminalSet

CONSTANTS
  Chars,       \* characters that a key can type
  ReadSizes,   \* nbytes of the reads
  MaxRaces     \* bound on keys pressed between an Enter and the end of the
               \* read that takes the line

Null == 0
Junk == 255    \* a byte that follows keyboard_buffer in memory

(* Where a process is: in user mode, or in terminal_read, before           *)
(*   wait   the loop on enter_pressed     ack    enter_pressed = 0         *)
(*   copy   the copy to buf               clear  the loop that clears      *)
(*   reset  end_buf_idx = 0                                                *)
Pcs == {"user", "wait", "ack", "copy", "clear", "reset"}

ASSUME LineAssumption ==
  /\ Chars \subseteq Nat /\ Chars \cap {Null, LineFeed, Junk} = {}
  /\ ReadSizes \subseteq Nat \ {0}
  /\ MaxRaces \in Nat

VARIABLES
  keyboard_buffer, \* the line of the terminal that is shown
  end_buf_idx,
  enter_pressed,   \* one flag for all terminals
  current_terminal,
  terminal_used,
  saved,           \* terminal -> its keyboard_buffer and end_buf_idx
  procs,           \* processes, the newest last: where each one is
  typed,           \* history: terminal -> the line as its user edited it
  filled,          \* history: terminals whose line filled the buffer since
                   \* it was begun
  races,           \* history: the number of such keys,
  raced            \* and the terminals on which they were pressed

lvars == <<keyboard_buffer, end_buf_idx, enter_pressed, current_terminal,
           terminal_used, saved, procs, typed, filled, races, raced>>

Index == 0 .. BufferSize - 1
Cells == Chars \cup {Null, LineFeed}
Empty == [i \in Index |-> Null]

NoLine == [buffer |-> Empty, idx |-> 0]

UserProc == [pc |-> "user", nbytes |-> 0, buf |-> <<>>]

LineInit ==
  /\ keyboard_buffer = Empty
  /\ end_buf_idx = 0
  /\ enter_pressed = FALSE
  /\ current_terminal = 1
  /\ terminal_used = [t \in Terminals |-> t = 1]
  /\ saved = [t \in Terminals |-> NoLine]
  /\ procs = <<UserProc>>
  /\ typed = [t \in Terminals |-> <<>>]
  /\ filled = {}
  /\ races = 0
  /\ raced = {}

Reader == procs[Len(procs)]
SetReader(r) == procs' = [procs EXCEPT ![Len(procs)] = r]

-----------------------------------------------------------------------------
(* terminal_read *)

ReadStart(n) ==
  /\ Reader.pc = "user"
  /\ SetReader([pc |-> "wait", nbytes |-> n, buf |-> <<>>])
  /\ UNCHANGED <<keyboard_buffer, end_buf_idx, enter_pressed,
                 current_terminal, terminal_used, saved, typed, filled,
                 races, raced>>

ReadWait ==
  /\ Reader.pc = "wait"
  /\ enter_pressed
  /\ SetReader([Reader EXCEPT !.pc = "ack"])
  /\ UNCHANGED <<keyboard_buffer, end_buf_idx, enter_pressed,
                 current_terminal, terminal_used, saved, typed, filled,
                 races, raced>>

ReadAck ==
  /\ Reader.pc = "ack"
  /\ enter_pressed' = FALSE
  /\ SetReader([Reader EXCEPT !.pc = "copy"])
  /\ UNCHANGED <<keyboard_buffer, end_buf_idx, current_terminal,
                 terminal_used, saved, typed, filled, races, raced>>

(* Bytes up to the first Null.  A buffer without one, read with nbytes     *)
(* larger than it is, goes on in the memory behind it.                     *)
LineEnd == CHOOSE i \in 0 .. BufferSize :
             /\ i = BufferSize \/ keyboard_buffer[i] = Null
             /\ \A j \in 0 .. i - 1 : keyboard_buffer[j] # Null
Tails(n) == IF n > BufferSize /\ LineEnd = BufferSize
              THEN {<<>>, <<Junk>>} ELSE {<<>>}
Count(n) == IF n < LineEnd THEN n ELSE LineEnd

ReadCopy ==
  /\ Reader.pc = "copy"
  /\ \E tail \in Tails(Reader.nbytes) :
       SetReader([Reader EXCEPT !.pc = "clear",
         !.buf = [i \in 1 .. Count(Reader.nbytes) |-> keyboard_buffer[i - 1]]
                    \o tail])
  /\ UNCHANGED <<keyboard_buffer, end_buf_idx, enter_pressed,
                 current_terminal, terminal_used, saved, typed, filled,
                 races, raced>>

ReadClear ==
  /\ Reader.pc = "clear"
  /\ keyboard_buffer' = Empty
  /\ SetReader([Reader EXCEPT !.pc = "reset"])
  /\ UNCHANGED <<end_buf_idx, enter_pressed, current_terminal,
                 terminal_used, saved, typed, filled, races, raced>>

(* What a race left behind is gone when the buffer is still empty and no   *)
(* Enter waits for the next read.                                          *)
ReadReset ==
  /\ Reader.pc = "reset"
  /\ end_buf_idx' = 0
  /\ raced' = IF keyboard_buffer = Empty /\ ~enter_pressed
                THEN raced \ {current_terminal} ELSE raced
  /\ typed' = [typed EXCEPT ![current_terminal] = <<>>]
  /\ filled' = filled \ {current_terminal}
  /\ SetReader(UserProc)
  /\ UNCHANGED <<keyboard_buffer, enter_pressed, current_terminal,
                 terminal_used, saved, races>>

(* A process that a keyboard interrupt started halts: the one it           *)
(* interrupted goes on where it was, in the middle of a read perhaps, with *)
(* what is in the buffer now.                                              *)
Halt ==
  /\ Reader.pc = "user"
  /\ Len(procs) > 1
  /\ procs' = SubSeq(procs, 1, Len(procs) - 1)
  /\ raced' = IF procs[Len(procs) - 1].pc \in {"user", "wait"} THEN raced
              ELSE raced \cup {current_terminal}
  /\ UNCHANGED <<keyboard_buffer, end_buf_idx, enter_pressed,
                 current_terminal, terminal_used, saved, typed, filled, races>>

-----------------------------------------------------------------------------
(* keyboard_interrupt *)

(* No character fits any more.                                             *)
Full == end_buf_idx = BufferSize - 1

(* A key may be pressed at any time; line is then what the user of the     *)
(* terminal has typed, which is of no more interest after a race.          *)
Racing == enter_pressed \/ Reader.pc \notin {"user", "wait"}
KeyPress(line) ==
  /\ Racing => races < MaxRaces
  /\ races' = IF Racing THEN races + 1 ELSE races
  /\ raced' = IF Racing THEN raced \cup {current_terminal, current_terminal'}
                        ELSE raced
  /\ typed' = [t \in Terminals |-> IF t \in raced' THEN <<>>
                                   ELSE IF t = current_terminal THEN line
                                   ELSE typed[t]]
  /\ filled' = (filled \cup (IF Full' THEN {current_terminal'} ELSE {}))
                 \ raced'
Line == typed[current_terminal]

(* The last character that fits is followed by a line feed at once.        *)
StoreChar(c) ==
  /\ end_buf_idx < BufferSize - 1
  /\ keyboard_buffer' = [i \in Index |->
       IF i = end_buf_idx THEN c
       ELSE IF i = BufferSize - 1 /\ end_buf_idx = BufferSize - 2 THEN LineFeed
       ELSE keyboard_buffer[i]]
  /\ end_buf_idx' = end_buf_idx + 1

(* A key pressed when the buffer is full changes nothing.                  *)
KeyChar(c) ==
  /\ StoreChar(c)
  /\ UNCHANGED <<enter_pressed, current_terminal, terminal_used, saved, procs>>
  /\ KeyPress(Append(Line, c))

(* mutant: the line feed is not stored               *)
KeyEnterNoLineFeed ==
  /\ enter_pressed' = TRUE
  /\ UNCHANGED <<keyboard_buffer, end_buf_idx, current_terminal,
                 terminal_used, saved, procs>>
  /\ KeyPress(Line)

(* end_buf_idx stays: the next character replaces the line feed.           *)
KeyEnter ==
  /\ enter_pressed' = TRUE
  /\ keyboard_buffer' = [keyboard_buffer EXCEPT ![end_buf_idx] = LineFeed]
  /\ UNCHANGED <<end_buf_idx, current_terminal, terminal_used, saved, procs>>
  /\ KeyPress(Line)

KeyBackspace ==
  /\ end_buf_idx > 0
  /\ end_buf_idx' = end_buf_idx - 1
  /\ keyboard_buffer' = [keyboard_buffer EXCEPT ![end_buf_idx - 1] = Null]
  /\ UNCHANGED <<enter_pressed, current_terminal, terminal_used, saved, procs>>
  /\ KeyPress(IF Line = <<>> THEN Line ELSE SubSeq(Line, 1, Len(Line) - 1))

(* mutant: end_buf_idx is not restored               *)
SwitchBuffersNoIdx(t) ==
  LET now == [saved EXCEPT ![current_terminal] =
                [buffer |-> keyboard_buffer, idx |-> end_buf_idx]]
  IN  /\ saved' = [now EXCEPT ![t] = NoLine]
      /\ keyboard_buffer' = now[t].buffer
      /\ UNCHANGED end_buf_idx

(* terminal_switch, then terminalone, terminaltwo or terminalthree.  The   *)
(* copy of the terminal that is shown is left out: the next switch writes  *)
(* it before anybody reads it.                                             *)
SwitchBuffers(t) ==
  LET now == [saved EXCEPT ![current_terminal] =
                [buffer |-> keyboard_buffer, idx |-> end_buf_idx]]
  IN  /\ saved' = [now EXCEPT ![t] = NoLine]
      /\ keyboard_buffer' = now[t].buffer
      /\ end_buf_idx' = now[t].idx

(* Alt+Fn; the shell of a terminal shown for the first time runs on top of *)
(* the process that was interrupted, unless processes[] is full.           *)
KeyTerminal(t) ==
  /\ SwitchBuffers(t)
  /\ current_terminal' = t
  /\ terminal_used' = [terminal_used EXCEPT ![t] = TRUE]
  /\ \/ procs' = procs
     \/ ~terminal_used[t] /\ procs' = Append(procs, UserProc)
  /\ KeyPress(Line)
  /\ UNCHANGED enter_pressed

-----------------------------------------------------------------------------
LineNext == \/ \E n \in ReadSizes : ReadStart(n)
        \/ ReadWait \/ ReadAck \/ ReadCopy \/ ReadClear \/ ReadReset
        \/ Halt
        \/ \E c \in Chars : KeyChar(c)
        \/ KeyEnter \/ KeyBackspace
        \/ \E t \in Terminals : KeyTerminal(t)

LineSpec == LineInit /\ [][LineNext]_lvars

-----------------------------------------------------------------------------
(* Every variable keeps its type: whatever the interleaving, no key writes *)
(* outside keyboard_buffer.                                                *)
LineTypeOK ==
  /\ keyboard_buffer \in [Index -> Cells]
  /\ end_buf_idx \in Index
  /\ enter_pressed \in BOOLEAN
  /\ current_terminal \in Terminals
  /\ terminal_used \in [Terminals -> BOOLEAN]
  /\ saved \in [Terminals -> [buffer : [Index -> Cells], idx : Index]]
  /\ procs \in Seq([pc : Pcs, nbytes : ReadSizes \cup {0},
                    buf : Seq(Cells \cup {Junk})])
  /\ procs # <<>>
  /\ typed \in [Terminals -> Seq(Chars)]
  /\ filled \subseteq Terminals
  /\ races \in Nat /\ raced \subseteq Terminals

LineOf(t) ==
  LET b == IF t = current_terminal THEN keyboard_buffer ELSE saved[t].buffer
      n == IF t = current_terminal THEN end_buf_idx ELSE saved[t].idx
  IN  [i \in 1 .. n |-> b[i - 1]]

(* Between the loop that clears the buffer and the end of the read the     *)
(* line of the current terminal is being taken away.                       *)
Taking(t) == t = current_terminal /\ Reader.pc = "reset"

(* Every terminal keeps the line its user has typed so far, through edits, *)
(* through switches in any order and while lines of other terminals are    *)
(* read.  A key in the window of a read may spoil this for the terminals   *)
(* shown, until their next read that is not disturbed in its last step.    *)
LineKept == \A t \in Terminals : Taking(t) \/ t \in raced \/ LineOf(t) = typed[t]

(* The line as its user ended it, and what terminal_read finds in the      *)
(* buffer: the line feed stored with the last character that fits stays    *)
(* when that character is erased, so a line of one character less is       *)
(* followed by two.                                                        *)
EndedLine == Append(typed[current_terminal], LineFeed)
StoredLine ==
  IF current_terminal \in filled /\ Len(EndedLine) = BufferSize - 1
    THEN Append(EndedLine, LineFeed) ELSE EndedLine

UpTo(n, line) == SubSeq(line, 1, IF n < Len(line) THEN n ELSE Len(line))

(* A read without a key in its window returns the line that was typed and  *)
(* its line feed, or as much of it as nbytes allows, and no byte more: but *)
(* for the second line feed of StoredLine, and for the memory behind the   *)
(* buffer, which only a line that fills all of it is followed by.          *)
LineDelivered ==
  /\ Reader.pc \in {"clear", "reset"}
  /\ current_terminal \notin raced
  => \/ Reader.buf = UpTo(Reader.nbytes, StoredLine)
     \/ /\ Len(StoredLine) = BufferSize /\ Reader.nbytes > BufferSize
        /\ Reader.buf = Append(StoredLine, Junk)

(* A read without a key in its window returns exactly the line that was    *)
(* typed and its line feed, or as much of it as nbytes allows.             *)
LineExact ==
  Reader.pc = "clear" /\ current_terminal \notin raced =>
    Reader.buf = UpTo(Reader.nbytes, EndedLine)

(* The line returned includes the line feed, when nbytes has room for a    *)
(* whole buffer.                                                           *)
LineFeedIncluded ==
  Reader.pc = "clear" /\ Reader.nbytes >= BufferSize =>
    \E i \in 1 .. Len(Reader.buf) : Reader.buf[i] = LineFeed

=============================================================================
