----------------------------- MODULE TerminalSet -----------------------------
(***************************************************************************)
(* What LineDiscipline and Screen share: the terminals and the size of the *)
(* buffer that holds a line.                                               *)
(***************************************************************************)
EXTENDS Integers, Sequences

CONSTANTS
  BufferSize,  \* KEYBOARD_BUFFER_SIZE (128 in the code)
  Terminals    \* 1 .. 3 in the code

ASSUME TerminalAssumption ==
  BufferSize \in Nat /\ BufferSize > 2 /\ 1 \in Terminals

LineFeed == 10

=============================================================================
