------------------------------- MODULE Syserr -------------------------------
(***************************************************************************)
(* The program syserr: its eight tests call the kernel with arguments that *)
(* must fail.  A test is the sequence of its calls, each with what the     *)
(* test compares its result with; results other than -1 are 0.             *)
(***************************************************************************)
EXTENDS FileDescriptors

NEG == -1073741823   \* NEG_FD and NEG_NUM
BIG == 1073741823    \* BIG_FD and BIG_NUM

(* The directory has an entry of its own and none that err_open looks for. *)
ASSUME SyserrAssumption ==
  /\ PcbLength <= BIG
  /\ DentryByName(Disk, ".") # 0
  /\ DentryByName(Disk, "missing") = 0

Call(name, a) == [call |-> name, arg |-> a]
Each(name, from, to) == [i \in 1 .. to - from + 1 |-> Call(name, from + i - 1)]

err_neg_fd == <<Call("read", NEG), Call("write", NEG), Call("close", NEG)>>
err_big_fd == <<Call("read", BIG), Call("write", BIG), Call("close", BIG)>>
OpenLots == [i \in 1 .. PcbLength - 1 |-> Call("open", ".")]
err_open_lots == OpenLots \o Each("close", 2, PcbLength - 1)
err_open == [i \in 1 .. 3 |-> Call("open", "missing")]
err_unopened == Each("close", 0, PcbLength - 1)
                  \o Each("read", 2, PcbLength - 1)
                  \o Each("write", 2, PcbLength - 1)
err_vidmap == <<Call("vidmap", "NULL"), Call("vidmap", "kernel")>>
err_stdin_out == <<Call("write", 0), Call("read", 1)>>
err_syscall_num == <<Call("number", BIG), Call("number", NEG), Call("number", 0)>>

(* Chosen by a digit; 0 is all of them.                                    *)
Tests == <<err_neg_fd, err_big_fd, err_open_lots, err_open, err_unopened,
           err_vidmap, err_stdin_out, err_syscall_num>>

-----------------------------------------------------------------------------
OpenFds(table, fname) == {fd \in Fds : FreeFd(table, fd)
                                        /\ DentryByName(Disk, fname) # 0}

(* The table that a call leaves.                                           *)
After(table, c) ==
  CASE c.call = "open" /\ OpenFds(table, c.arg) # {} ->
         [table EXCEPT ![CHOOSE fd \in OpenFds(table, c.arg) : TRUE] =
            OpenEntry(@, Disk.direntries[DentryByName(Disk, c.arg)])]
    [] c.call = "close" /\ c.arg \in 2 .. PcbLength - 1 ->
         [table EXCEPT ![c.arg] = ClosedEntry(@)]
    [] OTHER -> table

(* The calls that succeed, or do not come back.  A write fails for a file  *)
(* and a directory; the number of a call is compared with MIN and MAX.     *)
Succeeds(table, c) ==
  CASE c.call = "open" -> OpenFds(table, c.arg) # {}
    [] c.call = "close" -> c.arg \in 2 .. PcbLength - 1 /\ table[c.arg].flags = 1
    [] c.call = "read" -> c.arg \in ReadFds /\ ~Refused(table[c.arg])
    [] c.call = "write" -> /\ c.arg \in WriteFds
                           /\ table[c.arg].file_operations \notin {"file", "dir"}
    [] c.call = "vidmap" -> c.arg \notin {"NULL", "kernel"}
    [] c.call = "number" -> c.arg \in 1 .. 10

(* The table and the calls that have succeeded, with one more call.        *)
Answer(st, c) ==
  [table |-> After(st.table, c),
   good  |-> st.good + (IF Succeeds(st.table, c) THEN 1 ELSE 0)]

Run(table, calls) ==
  LET after[i \in 0 .. Len(calls)] ==
        IF i = 0 THEN [table |-> table, good |-> 0]
                 ELSE Answer(after[i - 1], calls[i])
  IN  after[Len(calls)]

(* err_open_lots counts the opens that fail, all but one of them must not; *)
(* every other test wants all its calls to fail.                           *)
Passes(table, k) ==
  IF k = 3 THEN Run(table, OpenLots).good = Len(OpenLots) - 1
           ELSE Run(table, Tests[k]).good = 0

(* Each test alone, and all of them one after the other; only the third    *)
(* and the fifth test change the table.                                    *)
AllPass(table) ==
  LET third == Run(table, err_open_lots).table
      fifth == Run(third, err_unopened).table
  IN  \A k \in 1 .. Len(Tests) : /\ Passes(table, k)
                                 /\ k > 3 => Passes(third, k)
                                 /\ k > 5 => Passes(fifth, k)

-----------------------------------------------------------------------------
(* What syserr prints does not depend on what happened before: whenever a  *)
(* process has no file open, after any opens, closes, reads and halts, in  *)
(* a slot used for the first time or again, the tests print PASS, each     *)
(* alone and all of them one after the other.                              *)
SyserrPasses ==
  (~frozen /\ \A fd \in Fds : Table[fd].flags = 0) => AllPass(Table)

=============================================================================
