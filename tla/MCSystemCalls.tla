--------------------------- MODULE MCSystemCalls ---------------------------
(***************************************************************************)
(* What stands behind the descriptors of a process: the table and its      *)
(* calls, the way from scan codes to keys and from keys to lines, and the  *)
(* screen.  A behaviour is one of one part: a line does not depend on how  *)
(* its keys were found, and neither does what a call does to the table.    *)
(***************************************************************************)
EXTENDS MCFileDescriptors, LineDiscipline, Keys, Screen

VARIABLE part

(* All keys of the main block, the * of the keypad and F1 to F4.           *)
MCCodes == (1 .. 62) \ {m.code : m \in Modifiers}

(* A part that does not run stands still from the start.                   *)
CallsIdle == /\ NInit /\ failed = {} /\ frozen = TRUE
             /\ fd_arr = [s \in NSlots |-> IF s = 0 THEN StdStreams([fd \in Fds |-> ZeroEntry])
                                                  ELSE [fd \in Fds |-> ZeroEntry]]
             /\ argument = [s \in NSlots |-> NoArg] /\ given = argument
LinesIdle == /\ keyboard_buffer = <<>> /\ end_buf_idx = 0 /\ enter_pressed = FALSE
             /\ current_terminal = 1 /\ terminal_used = <<>> /\ saved = <<>>
             /\ procs = <<UserProc>> /\ typed = <<>> /\ filled = {}
             /\ races = 0 /\ raced = Terminals
ScreenIdle == /\ display = BlankDisplay /\ line_idx = 0 /\ shown = 1
              /\ screens = <<>> /\ seen = <<>> /\ faulted = TRUE

MCInit == /\ part \in {"calls", "scan codes", "lines", "screen"}
          /\ KeysInit
          /\ IF part = "calls" THEN Init ELSE CallsIdle
          /\ IF part = "lines" THEN LineInit ELSE LinesIdle
          /\ IF part = "screen" THEN ScreenInit ELSE ScreenIdle

MCNext ==
  /\ UNCHANGED part
  /\ \/ part = "calls" /\ Next /\ UNCHANGED <<lvars, kvars, svars>>
     \/ part = "lines" /\ LineNext /\ UNCHANGED <<fvars, kvars, svars>>
     \/ part = "scan codes" /\ KeysNext /\ UNCHANGED <<fvars, lvars, svars>>
     \/ part = "screen" /\ ScreenNext /\ UNCHANGED <<fvars, lvars, kvars>>

MCSpec == MCInit /\ [][MCNext]_<<fvars, lvars, kvars, svars, part>>

=============================================================================
