--------------------------- MODULE ProcessNesting ---------------------------
(***************************************************************************)
(* What process control promises, without stacks, pages or interrupts:     *)
(* processes nest like calls.  A process that executes another one is      *)
(* suspended until that one halts; only the newest process runs; a process *)
(* never shares its slot; the base shell stays.                            *)
(***************************************************************************)
EXTENDS Integers

CONSTANT MaxProcs

VARIABLES
  live,     \* the slots of the processes that have not halted
  running   \* the slot of the newest one

nvars == <<live, running>>

NSlots == 0 .. MaxProcs - 1

NInit == live = {0} /\ running = 0

(* Slots are given in increasing order, so the newest has the largest.     *)
NExecute(s) ==
  /\ \A t \in live : t < s
  /\ live' = live \cup {s}
  /\ running' = s

NHalt(p) ==
  /\ p # running
  /\ \A t \in live \ {running} : t <= p
  /\ live' = live \ {running}
  /\ running' = p

NNext == \/ \E s \in NSlots : NExecute(s)
         \/ \E p \in live : NHalt(p)

NSpec == NInit /\ [][NNext]_nvars

=============================================================================
