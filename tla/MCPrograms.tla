----------------------------- MODULE MCPrograms -----------------------------
(***************************************************************************)
(* The user programs, and the loops over files and formats of the kernel.  *)
(* A behaviour is one of one part: a run of grep, the reading of the       *)
(* pictures of fish, its list of blinking characters, a session at the     *)
(* shell, a call of printf, or the reads of one file.                      *)
(***************************************************************************)
EXTENDS Grep, Frames, Blink, Commands, Printf, MCFileAccess

VARIABLE program

(* Files for grep: all texts of up to 5 bytes whose lines fit the buffer.  *)
Texts == {f \in UNION {[1 .. n -> {97, 98, NL}] : n \in 0 .. 5} : Fits(f)}
MCDirs == {<<f>> : f \in Texts} \cup {<<f, <<>>, <<97, 98, NL, 97, 98>>, f>> : f \in
            {g \in Texts : Len(g) = 4}}
MCSearches == {<<97>>, <<97, 98>>}

MCPictures == UNION {[1 .. n -> {88, SP, NL}] : n \in 0 .. 3}

(* Two timings, one with a length of 0.                                    *)
MCTemplates ==
  {[on_char |-> "I", off_char |-> "M", on_length |-> 2, off_length |-> 0],
   [on_char |-> "I", off_char |-> "M", on_length |-> 1, off_length |-> 1]}

(* Names that are the start or the end of one that fills its field.       *)
MCDirectory == <<<<DOT>>, <<97>>, <<97, 98>>, <<98>>>>

(* Every word as the first argument.                                       *)
MCArguments == Words \X {200}
MCStringAt == [p \in Words |-> IF p % 2 = 0 THEN <<>> ELSE <<37, 100>>]

GrepIdle == /\ dir = <<>> /\ search = <<97>> /\ gpc = "done" /\ entry = 0
            /\ open_fds = 1 /\ pos = 0 /\ data = <<>> /\ cnt = 0 /\ last = 0
            /\ line_start = 0 /\ found = <<>> /\ misread = FALSE
FramesIdle == /\ f0 = <<>> /\ f1 = <<>> /\ pos0 = 0 /\ pos1 = 0
              /\ c0 = NL /\ c1 = NL /\ eof0 = TRUE /\ eof1 = TRUE
              /\ row = 0 /\ col = 0 /\ fdone = TRUE /\ added = <<>>
PrintfIdle == /\ items = <<>> /\ args = <<0, 0>> /\ buf = 0 /\ esp = 1
              /\ printed = <<>> /\ marks = <<>>

AccessIdle == /\ fs = <<>> /\ ino = 0 /\ job = "none" /\ file_position = 0
              /\ k = 0 /\ done_flag = FALSE /\ pc = "first" /\ out = <<>>

Init == /\ program \in {"grep", "frames", "blink", "shell", "printf", "files"}
        /\ BlinkInit /\ CommandsInit
        /\ IF program = "grep" THEN GrepInit ELSE GrepIdle
        /\ IF program = "frames" THEN FramesInit ELSE FramesIdle
        /\ IF program = "printf" THEN PrintfInit ELSE PrintfIdle
        /\ IF program = "files" THEN AccessInit ELSE AccessIdle

InGrep == program = "grep" /\ GrepNext
          /\ UNCHANGED <<frvars, bvars, cvars, prvars, avars, program>>
InFrames == program = "frames" /\ FrameStep
            /\ UNCHANGED <<gvars, bvars, cvars, prvars, avars, program>>
InBlink(A) == program = "blink" /\ A
              /\ UNCHANGED <<gvars, frvars, cvars, prvars, avars, program>>
InShell == program = "shell" /\ CommandsNext
           /\ UNCHANGED <<gvars, frvars, bvars, prvars, avars, program>>
InPrintf == program = "printf" /\ PrintfStep
            /\ UNCHANGED <<gvars, frvars, bvars, cvars, avars, program>>
InFiles(A) == program = "files" /\ A
              /\ UNCHANGED <<gvars, frvars, bvars, cvars, prvars, program>>

Next == \/ InGrep \/ InFrames \/ InBlink(BlinkNext) \/ InShell \/ InPrintf
        \/ InFiles(AccessNext)

(* A program goes on as long as it runs, and so does the loop that loads   *)
(* one; nothing forces a program to read, and of the blinking characters   *)
(* only the tasklet must go on.                                            *)
ProgramSpec ==
  /\ Init /\ [][Next]_<<gvars, frvars, bvars, cvars, prvars, avars, program>>
  /\ WF_<<gvars, frvars, avars>>(InGrep \/ InFrames
                                 \/ InFiles(LoadFirst \/ LoadNext))
  /\ WF_bvars(InBlink(Tasklet))

(* The programs end.  grep gets through a directory of any length and      *)
(* never lacks a descriptor; fish reads both files to their end.           *)
ProgramsEnd == <>(gpc = "done" /\ fdone)

=============================================================================
