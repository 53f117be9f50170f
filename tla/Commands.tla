------------------------------ MODULE Commands ------------------------------
(***************************************************************************)
(* From a line typed at the shell to the file that a program opens, byte   *)
(* by byte: the shell, the parsing in sys_execute, the argument string in  *)
(* the PCB, names of fixed length in the directory, and the programs cat,  *)
(* ls and grep as far as they handle names.                                *)
(*                                                                         *)
(* One shell runs in slot 0 and starts a program in the first slot that is *)
(* not marked; those that failed commands marked are below it.             *)
(***************************************************************************)
EXTENDS TextFiles

CONSTANTS
  NameLen,    \* FILENAME_LEN (32 in the code)
  ArgLen,     \* BUFFER_SIZE, of the argument and of a line (128)
  MaxSlots,   \* length of processes (6)
  Directory,  \* names of the entries
  Programs,   \* the entries that are executables
  Letters,    \* characters that are typed
  MaxLine     \* bound: length of a line

DOT == 46
Exit == <<101, 120, 105, 116>>

ASSUME CommandsAssumption ==
  /\ NameLen \in Nat \ {0} /\ MaxSlots \in Nat \ {0}
  /\ MaxLine \in Nat /\ ArgLen \in Nat /\ MaxLine < ArgLen
  /\ NUL \notin Letters
  /\ Directory \in Seq(Seq(Nat \ {NUL}))
  /\ \A i \in 1 .. Len(Directory) :
       /\ Len(Directory[i]) \in 1 .. NameLen
       /\ \A j \in 1 .. Len(Directory) : Directory[i] = Directory[j] => i = j
  /\ Programs \subseteq 1 .. Len(Directory)

VARIABLES
  line,       \* history: the last command, without its line feed
  taken,      \* slots that are marked, the first ones
  arguments,  \* slot -> argument
  started,    \* the entry of the program that runs, 0 for none
  refused,    \* history: it failed
  opened,     \* history: what cat opened: the entry, 0 if it failed, or -1
  position,   \* file_position of the directory
  listed      \* history: names read and the entries that they open

cvars == <<line, taken, arguments, started, refused, opened, position, listed>>

-----------------------------------------------------------------------------
(* n bytes of memory with a text and zeroes behind it.                     *)
Cells(text, n) == [i \in 0 .. n - 1 |-> IF i < Len(text) THEN text[i + 1] ELSE NUL]

(* The first i below n for which s[i] is c, or n.                          *)
IndexOf(s, c, n) ==
  CHOOSE i \in 0 .. n : /\ i < n => s[i] = c
                        /\ \A j \in 0 .. i - 1 : s[j] # c

strlen(s) == CHOOSE i \in DOMAIN s : s[i] = NUL /\ \A j \in 0 .. i - 1 : s[j] # NUL

(* strncmp returns 0: it stops at a difference or at the end of s1.        *)
strncmp_equal(s1, s2, n) ==
  \A i \in 0 .. n - 1 :
    (\A j \in 0 .. i - 1 : s1[j] = s2[j] /\ s1[j] # NUL) => s1[i] = s2[i]

(* What strncpy leaves in the first n bytes of its destination.            *)
strncpy(src, n) ==
  [i \in 0 .. n - 1 |-> IF \A j \in 0 .. i : src[j] # NUL THEN src[i] ELSE NUL]

Filename(i) == Cells(Directory[i], NameLen)

(* A name that fills its field has no NUL: the length is limited.          *)
SameName(fname, i) ==
  LET len == IndexOf(Filename(i), NUL, NameLen) IN
  strlen(fname) = len /\ strncmp_equal(fname, Filename(i), len)

(* 0 stands for failure.                                                   *)
read_dentry_by_name(fname) ==
  LET hits == {i \in 1 .. Len(Directory) : SameName(fname, i)}
  IN  IF hits = {} THEN 0 ELSE CHOOSE i \in hits : \A j \in hits : i <= j

-----------------------------------------------------------------------------
CommandsInit ==
  /\ line = <<>>
  /\ taken = 1
  /\ arguments = [s \in 0 .. MaxSlots - 1 |-> Cells(<<>>, ArgLen)]
  /\ started = 0
  /\ refused = FALSE
  /\ opened = -1
  /\ position = 0
  /\ listed = <<>>

(* The command up to its first space, or all of it.                        *)
ArgBuffer(command, space) ==
  [i \in 0 .. space |-> IF i < space THEN command[i] ELSE NUL]

(* mutant: no NUL behind the argument                *)
StoredArgumentOpen(old, command, space) ==
  LET n == strlen(command) - (space + 1) IN
  [j \in 0 .. ArgLen - 1 |-> IF j < n THEN command[j + space + 1] ELSE old[j]]

(* What follows the space, and a NUL; what the slot had stays behind it.   *)
StoredArgument(old, command, space) ==
  LET n == strlen(command) - (space + 1) IN
  [j \in 0 .. ArgLen - 1 |-> IF j < n THEN command[j + space + 1]
                             ELSE IF j = n THEN NUL ELSE old[j]]

(* A command that the shell reads, neither exit nor empty, and sys_execute *)
(* with it.  Without a free slot nothing changes.                          *)
Execute(text) ==
  LET command == Cells(text, MaxLine + 1)
      space == IndexOf(command, SP, Len(text))
      entry == read_dentry_by_name(ArgBuffer(command, space))
  IN
  /\ started = 0
  /\ taken < MaxSlots
  /\ text \notin {<<>>, Exit}
  /\ line' = text
  /\ taken' = taken + 1
  /\ arguments' = IF space = Len(text) THEN arguments
       ELSE [arguments EXCEPT ![taken] = StoredArgument(@, command, space)]
  /\ started' = IF entry \in Programs THEN entry ELSE 0
  /\ refused' = (entry \notin Programs)
  /\ opened' = -1 /\ position' = 0 /\ listed' = <<>>

(* sys_getargs fails for an argument that starts with a NUL; cat opens     *)
(* what it gets.                                                           *)
Cat ==
  LET argument == arguments[taken - 1] IN
  /\ started # 0
  /\ opened' = IF argument[0] = NUL THEN 0 ELSE read_dentry_by_name(argument)
  /\ UNCHANGED <<line, taken, arguments, started, refused, position, listed>>

(* dir_read into the buffer of ls and grep, one longer than a name.  Both  *)
(* end the name at what dir_read returned; grep opens all names without a  *)
(* dot.                                                                    *)
ReadDirectory ==
  LET name == strncpy(Filename(position + 1), NameLen)
      cnt == IndexOf(Filename(position + 1), NUL, NameLen)
      buf == [i \in 0 .. NameLen |-> IF i = cnt \/ i = NameLen THEN NUL ELSE name[i]]
  IN
  /\ started # 0
  /\ position < Len(Directory)
  /\ position' = position + 1
  /\ listed' = Append(listed,
       [name |-> [i \in 1 .. cnt |-> buf[i - 1]],
        entry |-> IF buf[0] = DOT THEN 0 ELSE read_dentry_by_name(buf)])
  /\ UNCHANGED <<line, taken, arguments, started, refused, opened>>

(* The program halts; its argument stays in the slot.                      *)
ProgramHalts ==
  /\ started # 0
  /\ started' = 0
  /\ taken' = taken - 1
  /\ opened' = -1 /\ position' = 0 /\ listed' = <<>>
  /\ UNCHANGED <<line, arguments, refused>>

Lengths == 1 .. MaxLine
CommandsNext ==
  \/ \E n \in Lengths : \E text \in [1 .. n -> Letters \cup {SP}] : Execute(text)
  \/ Cat \/ ReadDirectory \/ ProgramHalts

CommandsSpec == CommandsInit /\ [][CommandsNext]_cvars

-----------------------------------------------------------------------------
(* The words of a line, as its user understands them.                      *)
FirstSpace(text) == SelectInSeq(text, LAMBDA c : c = SP)
Word(text) == IF FirstSpace(text) = 0 THEN text
              ELSE SubSeq(text, 1, FirstSpace(text) - 1)
Rest(text) == SubSeq(text, FirstSpace(text) + 1, Len(text))
EntryNamed(name) == SelectInSeq(Directory, LAMBDA n : n = name)

(* A line starts the program it names and no other, cat opens the file     *)
(* that the rest of the line names and no other, whatever commands the     *)
(* slot had before, and a program that reads the directory gets every name *)
(* whole and opens its file by it: names that are part of one another, and *)
(* names that fill their field and have no NUL, included.                  *)
CommandObeyed ==
  /\ started # 0 => started = EntryNamed(Word(line))
  /\ refused => EntryNamed(Word(line)) \notin Programs
  /\ (started # 0 /\ opened # -1 /\ FirstSpace(line) # 0) =>
       opened = EntryNamed(Rest(line))
  /\ \A i \in 1 .. Len(listed) :
       listed[i] = [name |-> Directory[i],
                    entry |-> IF Directory[i][1] = DOT THEN 0 ELSE i]

=============================================================================
