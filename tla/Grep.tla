-------------------------------- MODULE Grep --------------------------------
(***************************************************************************)
(* The grep program: main goes through the directory, do_one_file reads a  *)
(* file piecewise into a buffer that keeps the part of a line that was not *)
(* read to its end.                                                        *)
(*                                                                         *)
(* The buffer is not initialised: it starts with the bytes that were on    *)
(* the stack, whatever they are, and do_one_file looks at the one behind   *)
(* the data it has read to find out whether a line has ended there.  The   *)
(* clock is a file that reads as empty; entries that start with a dot are  *)
(* skipped and left out here.                                              *)
(***************************************************************************)
EXTENDS TextFiles, FiniteSets

CONSTANTS
  BufSize,     \* BUFSIZE (1024 in the code)
  MaxFds,      \* descriptors that a process can open (6 in the code)
  Dirs,        \* directories: sequences of contents of files
  Searches,    \* strings to search for
  StackBytes   \* what a byte of data may be before it is written

(* No line of a text is longer than the buffer.                            *)
Fits(f) ==
  \A i \in 0 .. Len(f) - BufSize - 1 :
    \E j \in i + 1 .. i + BufSize + 1 : f[j] = NL

ASSUME GrepAssumption ==
  /\ BufSize \in Nat \ {0} /\ MaxFds \in Nat
  /\ \A d \in Dirs : /\ d \in Seq(Seq(Nat \ {NUL}))
                     /\ \A e \in 1 .. Len(d) : Fits(d[e])
  /\ \A t \in Searches : t \in Seq(Nat) /\ t # <<>>
  /\ StackBytes \subseteq Nat

VARIABLES
  dir, search, \* the directory and the search string
  gpc,         \* "dir", "read", "line", "done" or "failed"
  entry,       \* the entries of the directory that were read
  open_fds,    \* descriptors in use
  pos,         \* file_position of the file
  data,        \* data[0 .. BUFSIZE]
  cnt, last, line_start,
  found,       \* what was printed: <<entry, line>> one after the other
  misread      \* history: a line feed that is not of the file ended a line
gvars == <<dir, search, gpc, entry, open_fds, pos, data, cnt, last, line_start,
           found, misread>>

File == dir[entry]

(* main has opened the directory.                                          *)
GrepInit ==
  /\ dir \in Dirs
  /\ search \in Searches
  /\ gpc = "dir"
  /\ entry = 0
  /\ open_fds = 1
  /\ pos = 0
  /\ data \in [0 .. BufSize -> StackBytes]
  /\ cnt = 0 /\ last = 0 /\ line_start = 0
  /\ found = <<>>
  /\ misread = FALSE

(* The next entry of the directory; do_one_file opens it.                  *)
NextEntry ==
  /\ gpc = "dir"
  /\ IF entry = Len(dir) THEN gpc' = "done" /\ UNCHANGED <<entry, open_fds>>
     ELSE /\ entry' = entry + 1
          /\ IF open_fds < MaxFds
               THEN gpc' = "read" /\ open_fds' = open_fds + 1
               ELSE gpc' = "failed" /\ UNCHANGED open_fds
  /\ pos' = 0
  /\ last' = 0
  /\ UNCHANGED <<dir, search, data, cnt, line_start, found, misread>>

Least(a, b) == IF a < b THEN a ELSE b

Read ==
  LET n == Least(BufSize - last, Len(File) - pos) IN
  /\ gpc = "read"
  /\ cnt' = n
  /\ pos' = pos + n
  /\ data' = [i \in 0 .. BufSize |->
       IF i >= last /\ i < last + n THEN File[pos + i - last + 1] ELSE data[i]]
  /\ last' = last + n
  /\ line_start' = 0
  /\ gpc' = "line"
  /\ UNCHANGED <<dir, search, entry, open_fds, found, misread>>

(* The first line feed from line_start on, or last.                        *)
LineEnd ==
  CHOOSE e \in line_start .. BufSize :
    /\ e >= last \/ data[e] = NL
    /\ \A i \in line_start .. e - 1 : i < last /\ data[i] # NL

Text(d, a, b) == [i \in 1 .. b - a |-> d[a + i - 1]]

(* strncmp at some place of the line; the NUL at its end stops it.         *)
Matches(line) ==
  \E i \in 0 .. Len(line) - Len(search) :
    SubSeq(line, i + 1, i + Len(search)) = search

(* ece391_strcpy(data, data + a): up to the first NUL behind a.            *)
MoveDown(d, a) ==
  LET z == CHOOSE z \in a .. BufSize :
             d[z] = NUL /\ \A i \in a .. z - 1 : d[i] # NUL
  IN  [i \in 0 .. BufSize |-> IF i <= z - a THEN d[a + i] ELSE d[i]]

(* mutant: the part of a line is not kept            *)
IncompleteNever(e) == FALSE
(* A line without its line feed yet, unless it fills the whole buffer.     *)
Incomplete(e) == data[e] # NL /\ cnt # 0 /\ line_start # 0

(* The byte behind what was read happens to be a line feed, and passes the *)
(* part of a line for a whole one.                                         *)
Misread(e) == e = last /\ data[e] = NL /\ cnt # 0 /\ line_start # 0

(* mutant: the file is not closed                    *)
EndOfPieceOpen ==
  IF cnt # 0 THEN gpc' = "read" /\ UNCHANGED open_fds
             ELSE gpc' = "dir" /\ UNCHANGED open_fds

(* The end of the buffer: the next piece of the file, or the file is       *)
(* closed after a read that returned 0.                                    *)
EndOfPiece ==
  IF cnt # 0 THEN gpc' = "read" /\ UNCHANGED open_fds
             ELSE gpc' = "dir" /\ open_fds' = open_fds - 1

(* One turn of the inner loop: the line from line_start on.                *)
LineStep ==
  LET e == LineEnd
      d == [data EXCEPT ![e] = NUL]
      line == Text(data, line_start, e)
  IN
  /\ gpc = "line"
  /\ IF Incomplete(e)
       THEN /\ data' = MoveDown(d, line_start)
            /\ last' = last - line_start
            /\ gpc' = "read"
            /\ UNCHANGED <<line_start, found, open_fds>>
       ELSE /\ data' = d
            /\ found' = IF Matches(line) THEN Append(found, <<entry, line>>)
                                         ELSE found
            /\ line_start' = e + 1
            /\ IF e + 1 < last
                 THEN gpc' = "line" /\ UNCHANGED <<last, open_fds>>
                 ELSE /\ last' = 0
                      /\ EndOfPiece
  /\ misread' = (misread \/ Misread(e))
  /\ UNCHANGED <<dir, search, entry, pos, cnt>>

GrepNext == NextEntry \/ Read \/ LineStep

GrepSpec == GrepInit /\ [][GrepNext]_gvars

-----------------------------------------------------------------------------
(* The lines of a file, each by how many bytes come before it.  The last   *)
(* one may lack its line feed.                                             *)
LineStart(f, a) == a \in 0 .. Len(f) /\ (a = 0 \/ f[a] = NL)
LineStop(f, a) ==
  CHOOSE b \in a .. Len(f) : /\ b = Len(f) \/ f[b + 1] = NL
                             /\ \A i \in a + 1 .. b : f[i] # NL
LineFrom(f, a) == [i \in 1 .. LineStop(f, a) - a |-> f[a + i]]

(* The lines that contain the string, as <<entry, bytes before it>>, and   *)
(* those of them up to one.                                                *)
HitsIn(e) == {a \in 0 .. Len(dir[e]) : /\ LineStart(dir[e], a)
                                       /\ Matches(LineFrom(dir[e], a))}
Hits == UNION {{<<e, a>> : a \in HitsIn(e)} : e \in 1 .. Len(dir)}
UpTo(p) == {q \in Hits : q[1] < p[1] \/ (q[1] = p[1] /\ q[2] <= p[2])}

(* grep prints the lines that contain the string, each once, whole and in  *)
(* order, although lines are cut by the end of the buffer at any place,    *)
(* unless the byte behind that end, which is not of the file, has been     *)
(* taken for the line feed of a line that was cut.                         *)
GrepExact ==
  gpc = "done" /\ ~misread =>
    /\ Len(found) = Cardinality(Hits)
    /\ \A p \in Hits :
         found[Cardinality(UpTo(p))] = <<p[1], LineFrom(dir[p[1]], p[2])>>

=============================================================================
