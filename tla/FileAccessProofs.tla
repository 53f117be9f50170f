-------------------------- MODULE FileAccessProofs --------------------------
(***************************************************************************)
(* Proofs about the loops over a file, for any image that createfs writes, *)
(* any size of blocks and any sizes of reads.                              *)
(***************************************************************************)
EXTENDS FileAccess, FileSystemProofs, SequenceTheorems

Length == fs.inode[ino].length
Prefix(n) == [i \in 1 .. n |-> Content(fs, ino)[i]]
DirNames(n) == [i \in 1 .. n |-> fs.direntries[i].filename]

(* What has been delivered is the file, or the directory, up to the        *)
(* position; the loader's flag is up only at the end of the file.          *)
FileInv == file_position \in 0 .. Length /\ out = Prefix(file_position)
DirInv ==
  /\ file_position \in Nat
  /\ out = DirNames(IF file_position < Len(fs.direntries)
                      THEN file_position ELSE Len(fs.direntries))
LoadInv ==
  /\ FileInv
  /\ pc = "first" => file_position = 0
  /\ pc = "done" => done_flag
  /\ done_flag => file_position = Length
AInv ==
  /\ fs \in Images /\ ino \in 0 .. fs.inode_count - 1
  /\ Len(fs.direntries) \in Nat
  /\ done_flag \in BOOLEAN
  /\ job \in {"file", "dir", "load"}
  /\ job = "file" => FileInv
  /\ job = "dir" => DirInv
  /\ job = "load" => LoadInv

(* Reads at the position, on the image of the behaviour.                   *)
LEMMA ReadHere ==
  ASSUME AInv, FileInv, NEW n \in Nat
  PROVE  /\ ReadData(fs, ino, file_position, n) = Readable(Length, file_position, n)
         /\ Readable(Length, file_position, n) \in 0 .. n
         /\ file_position + Readable(Length, file_position, n) \in 0 .. Length
         /\ Readable(Length, file_position, n) < n
              => file_position + Readable(Length, file_position, n) = Length
         /\ Length \in Nat
<1>1. Wellformed(fs)
  BY AccessAssumption DEF AInv
<1>2. Length \in Nat
  BY <1>1, InRange DEF AInv, FileInv, Length
<1>3. ReadData(fs, ino, file_position, n) = Readable(Length, file_position, n)
  BY <1>1, ReadDataExact DEF AInv, FileInv, Length
<1> QED BY <1>2, <1>3 DEF FileInv, Readable

LEMMA BytesHere ==
  ASSUME Length \in Nat, NEW off \in Nat, NEW i \in Nat, off + i < Length
  PROVE  ByteRead(fs, ino, off, i) = Content(fs, ino)[off + i + 1]
  BY ByteReadExact DEF Length

(* The bytes of a read, behind those before it.                            *)
LEMMA AppendBytes ==
  ASSUME Length \in Nat, NEW off \in 0 .. Length, NEW w \in Nat, off + w <= Length
  PROVE  Prefix(off) \o Bytes(off, w) = Prefix(off + w)
<1> DEFINE C == Content(fs, ino)
           S == {C[i] : i \in 1 .. Length}
           a == Prefix(off)
           b == Bytes(off, w)
           c == Prefix(off + w)
<1>1. a \in Seq(S) /\ Len(a) = off /\ \A i \in 1 .. off : a[i] = C[i]
  <2>1. a \in [1 .. off -> S]
    BY DEF Prefix
  <2> QED BY <2>1 DEF Prefix
<1>2. c \in Seq(S) /\ Len(c) = off + w /\ \A i \in 1 .. off + w : c[i] = C[i]
  <2>1. c \in [1 .. off + w -> S]
    BY DEF Prefix
  <2> QED BY <2>1 DEF Prefix
<1>3. \A i \in 1 .. w : b[i] = C[off + i]
  <2> SUFFICES ASSUME NEW i \in 1 .. w PROVE b[i] = C[off + i]
    OBVIOUS
  <2>1. i - 1 \in Nat /\ off + (i - 1) < Length /\ off + (i - 1) + 1 = off + i
    OBVIOUS
  <2>2. ByteRead(fs, ino, off, i - 1) = C[off + (i - 1) + 1]
    BY <2>1, BytesHere
  <2> QED BY <2>1, <2>2 DEF Bytes
<1>4. b \in Seq(S) /\ Len(b) = w
  <2>1. b = [i \in 1 .. w |-> b[i]]
    BY DEF Bytes
  <2>2. \A i \in 1 .. w : b[i] \in S
    BY <1>3
  <2> HIDE DEF b
  <2>3. b \in [1 .. w -> S]
    BY <2>1, <2>2
  <2> QED BY <2>3
<1> HIDE DEF a, b, c, S, C
<1>5. /\ a \o b \in Seq(S) /\ Len(a \o b) = off + w
      /\ \A i \in 1 .. off + w : (a \o b)[i] = C[i]
  <2>1. /\ a \o b \in Seq(S) /\ Len(a \o b) = off + w
        /\ \A i \in 1 .. off + w : (a \o b)[i] = IF i <= off THEN a[i] ELSE b[i - off]
    BY <1>1, <1>4, ConcatProperties
  <2>2. \A i \in 1 .. off + w : i > off => i - off \in 1 .. w /\ off + (i - off) = i
    OBVIOUS
  <2> QED BY <1>1, <1>3, <2>1, <2>2
<1>6. a \o b = c
  BY <1>2, <1>5, SeqEqual
<1> QED BY <1>6 DEF a, b, c

LEMMA FileReadInv ==
  ASSUME AInv, NEW nbytes \in 0 .. MaxRead, FileRead(nbytes)
  PROVE  AInv'
<1> DEFINE w == Readable(Length, file_position, nbytes)
<1>1. job = "file" /\ FileInv /\ nbytes \in Nat
  BY AccessAssumption DEF FileRead, AInv
<1>2. /\ ReadData(fs, ino, file_position, nbytes) = w /\ Length \in Nat
      /\ w \in Nat /\ file_position + w \in 0 .. Length /\ file_position \in 0 .. Length
  BY <1>1, ReadHere DEF FileInv
<1> HIDE DEF w
<1>3. /\ file_position' = file_position + w /\ k' = w
      /\ out' = out \o Bytes(file_position, w)
  BY <1>2 DEF FileRead
<1>4. UNCHANGED <<fs, ino, job, done_flag, pc>>
  BY DEF FileRead
<1>5. out' = Prefix(file_position + w)
  <2>1. file_position + w <= Length
    BY <1>2
  <2>2. Prefix(file_position) \o Bytes(file_position, w) = Prefix(file_position + w)
    BY <1>2, <2>1, AppendBytes
  <2> QED BY <1>1, <1>3, <2>2 DEF FileInv
<1>6. FileInv'
  BY <1>2, <1>3, <1>4, <1>5 DEF FileInv, Length, Prefix
<1> QED BY <1>1, <1>4, <1>6 DEF AInv

LEMMA DirReadInv ==
  ASSUME AInv, DirRead
  PROVE  AInv'
<1> DEFINE d == Len(fs.direntries)
<1>1. job = "dir" /\ file_position \in Nat /\ d \in Nat
  BY DEF DirRead, AInv, DirInv
<1>2. UNCHANGED <<fs, ino, job, done_flag, pc>> /\ file_position' = file_position + 1
  BY DEF DirRead
<1>3. CASE file_position < d
  <2>1. out = DirNames(file_position)
    BY <1>1, <1>3 DEF AInv, DirInv
  <2>2. out' = Append(out, fs.direntries[file_position + 1].filename)
    BY <1>3 DEF DirRead, DentryByIndex
  <2>3. out' = DirNames(file_position + 1)
    <3> DEFINE S == {fs.direntries[i].filename : i \in 1 .. file_position + 1}
               x == fs.direntries[file_position + 1].filename
               c == DirNames(file_position + 1)
    <3>1. x \in S
      BY <1>1
    <3>2. out \in [1 .. file_position -> S] /\ c \in [1 .. file_position + 1 -> S]
      BY <1>1, <2>1 DEF DirNames
    <3>3. \A i \in 1 .. file_position : out[i] = c[i]
      BY <1>1, <2>1 DEF DirNames
    <3>4. c[file_position + 1] = x
      BY <1>1 DEF DirNames
    <3> HIDE DEF S, x, c
    <3>5. out \in Seq(S) /\ Len(out) = file_position
      BY <1>1, <3>2
    <3>6. c \in Seq(S) /\ Len(c) = file_position + 1
      BY <1>1, <3>2
    <3>7. /\ Append(out, x) \in Seq(S) /\ Len(Append(out, x)) = file_position + 1
          /\ \A i \in 1 .. file_position + 1 : Append(out, x)[i] = c[i]
      BY <1>1, <3>1, <3>3, <3>4, <3>5
    <3>8. Append(out, x) = c
      BY <3>6, <3>7, SeqEqual
    <3> QED BY <2>2, <3>8 DEF x, c
  <2>4. DirInv'
    BY <1>1, <1>2, <1>3, <2>3 DEF DirInv, DirNames
  <2> QED BY <1>1, <1>2, <2>4 DEF AInv
<1>4. CASE ~(file_position < d)
  <2>1. out' = out
    BY <1>4 DEF DirRead, DentryByIndex
  <2>2. DirInv'
    BY <1>1, <1>2, <1>4, <2>1 DEF AInv, DirInv, DirNames
  <2> QED BY <1>1, <1>2, <2>2 DEF AInv
<1> QED BY <1>3, <1>4

(* The bytes that the loader stores at its offset.                         *)
LEMMA StoreBytes ==
  ASSUME Length \in Nat, file_position \in 0 .. Length, out = Prefix(file_position),
         NEW w \in Nat, file_position + w <= Length
  PROVE  Store(file_position, w) = Prefix(file_position + w)
<1>1. Len(out) = file_position
  <2>1. Prefix(file_position) \in Seq({Content(fs, ino)[i] : i \in 1 .. Length})
    <3>1. Prefix(file_position) \in
            [1 .. file_position -> {Content(fs, ino)[i] : i \in 1 .. Length}]
      BY DEF Prefix
    <3> QED BY <3>1
  <2> QED BY <2>1 DEF Prefix
<1>2. (IF Len(out) > file_position + w THEN Len(out) ELSE file_position + w)
        = file_position + w
  BY <1>1
<1>3. ASSUME NEW p \in 1 .. file_position + w, p > file_position
      PROVE  ByteRead(fs, ino, file_position, p - file_position - 1) = Content(fs, ino)[p]
  <2>1. /\ p - file_position - 1 \in Nat
        /\ file_position + (p - file_position - 1) < Length
        /\ file_position + (p - file_position - 1) + 1 = p
    BY <1>3
  <2> QED BY <2>1, BytesHere
<1>4. ASSUME NEW p \in 1 .. file_position + w
      PROVE  (IF p > file_position /\ p <= file_position + w
                THEN ByteRead(fs, ino, file_position, p - file_position - 1)
                ELSE out[p]) = Content(fs, ino)[p]
  BY <1>3 DEF Prefix
<1> QED BY <1>2, <1>4 DEF Store, Prefix

LEMMA LoadInvStep ==
  ASSUME AInv, LoadFirst \/ LoadNext
  PROVE  AInv'
<1> DEFINE w == Readable(Length, file_position, ReadSize)
<1>1. job = "load" /\ LoadInv /\ FileInv /\ ReadSize \in Nat \ {0}
  BY AccessAssumption DEF LoadFirst, LoadNext, AInv, LoadInv
<1>2. /\ ReadData(fs, ino, file_position, ReadSize) = w /\ Length \in Nat
      /\ w \in 0 .. ReadSize /\ file_position + w \in 0 .. Length
      /\ file_position \in 0 .. Length
      /\ w # ReadSize => file_position + w = Length
  <2>1. /\ ReadData(fs, ino, file_position, ReadSize) = w /\ Length \in Nat
        /\ w \in 0 .. ReadSize /\ file_position + w \in 0 .. Length
        /\ w < ReadSize => file_position + w = Length
    BY <1>1, ReadHere
  <2>2. file_position \in 0 .. Length
    BY <1>1 DEF FileInv
  <2> HIDE DEF w
  <2> QED BY <1>1, <2>1, <2>2
<1> HIDE DEF w
<1>3. UNCHANGED <<fs, ino, job>>
  BY DEF LoadFirst, LoadNext
<1>4. Store(file_position, w) = Prefix(file_position + w)
  BY <1>1, <1>2, StoreBytes DEF FileInv
<1>5. CASE LoadFirst
  <2>1. file_position = 0 /\ pc' = "loop" /\ done_flag' = done_flag /\ pc = "first"
    BY <1>1, <1>5 DEF LoadFirst, LoadInv
  <2>2. file_position' = file_position + w /\ out' = Prefix(file_position + w)
    BY <1>2, <1>4, <1>5, <2>1 DEF LoadFirst
  <2>3. done_flag => file_position + w = Length
    BY <1>1, <1>2 DEF LoadInv
  <2>4. LoadInv'
    BY <1>2, <1>3, <2>1, <2>2, <2>3 DEF LoadInv, FileInv, Length, Prefix
  <2> QED BY <1>1, <1>3, <2>1, <2>4 DEF AInv
<1>6. CASE LoadNext /\ LoadLoopEnds
  <2>1. pc' = "done" /\ UNCHANGED <<done_flag, file_position, out>> /\ done_flag
    BY <1>6 DEF LoadNext, LoadLoopEnds
  <2>2. LoadInv'
    BY <1>1, <1>3, <2>1 DEF LoadInv, FileInv, Length, Prefix
  <2> QED BY <1>1, <1>3, <2>1, <2>2 DEF AInv
<1>7. CASE LoadNext /\ ~LoadLoopEnds
  <2>1. /\ k' = w /\ file_position' = file_position + w
        /\ done_flag' = (done_flag \/ w # ReadSize)
        /\ out' = Prefix(file_position + w) /\ pc = "loop" /\ pc' = pc
    BY <1>2, <1>4, <1>7 DEF LoadNext
  <2>2. done_flag' => file_position + w = Length
    <3>1. done_flag => file_position = Length
      BY <1>1 DEF LoadInv
    <3>2. file_position = Length => file_position + w = Length
      BY <1>2
    <3> QED BY <1>2, <2>1, <3>1, <3>2, Zenon
  <2>3. LoadInv'
    BY <1>2, <1>3, <2>1, <2>2 DEF LoadInv, FileInv, Length, Prefix
  <2> QED BY <1>1, <1>3, <2>1, <2>3 DEF AInv
<1> QED BY <1>5, <1>6, <1>7

LEMMA AInvStep ==
  ASSUME AInv, [AccessNext]_avars
  PROVE  AInv'
<1>1. CASE UNCHANGED avars
  BY <1>1 DEF avars, AInv, FileInv, DirInv, LoadInv, Length, Prefix, DirNames
<1> QED BY <1>1, FileReadInv, DirReadInv, LoadInvStep DEF AccessNext

LEMMA AInitInv == AccessInit => AInv
<1> SUFFICES ASSUME AccessInit PROVE AInv
  OBVIOUS
<1>1. fs \in Images /\ ino \in 0 .. fs.inode_count - 1 /\ Wellformed(fs)
  BY AccessAssumption DEF AccessInit
<1>2. Length \in Nat /\ Len(fs.direntries) \in Nat
  BY <1>1 DEF Wellformed, Length
<1>3. Prefix(0) = <<>> /\ DirNames(0) = <<>>
  BY DEF Prefix, DirNames
<1>4. FileInv /\ DirInv /\ LoadInv
  BY <1>2, <1>3 DEF AccessInit, FileInv, DirInv, LoadInv
<1> QED BY <1>1, <1>2, <1>4 DEF AccessInit, AInv

(* The whole content is a prefix of itself.                                *)
LEMMA PrefixIsSubSeq ==
  ASSUME Length \in Nat, NEW n \in 0 .. Length
  PROVE  Prefix(n) = SubSeq(Content(fs, ino), 1, n)
<1> DEFINE C == Content(fs, ino)
           S == {C[i] : i \in 1 .. Length}
           a == Prefix(n)
           b == SubSeq(C, 1, n)
<1>1. a \in [1 .. n -> S] /\ \A i \in 1 .. n : a[i] = C[i]
  BY DEF Prefix
<1>2. \A i \in 1 .. n : C[i] \in S
  OBVIOUS
<1> HIDE DEF a, S, C
<1>3. a \in Seq(S) /\ Len(a) = n
  BY <1>1
<1>4. b \in Seq(S) /\ Len(b) = n /\ \A i \in 1 .. n : b[i] = C[i]
  <2>1. /\ b \in Seq(S) /\ Len(b) = IF 1 <= n THEN n - 1 + 1 ELSE 0
        /\ \A i \in 1 .. n - 1 + 1 : b[i] = C[1 + i - 1]
    BY <1>2, SubSeqProperties
  <2> HIDE DEF b
  <2>2. n - 1 + 1 = n /\ \A i \in 1 .. n : 1 + i - 1 = i
    OBVIOUS
  <2> QED BY <2>1, <2>2
<1>5. a = b
  BY <1>1, <1>3, <1>4, SeqEqual
<1> QED BY <1>5 DEF a, C

(* Reads of any sizes deliver the file, or the directory, in order and     *)
(* without gaps, for every well-formed image and every size of blocks.     *)
THEOREM ReadsDeliverInOrder == AccessSpec => []ReadsInOrder
<1>1. AInv /\ [AccessNext]_avars => AInv'
  BY AInvStep
<1>2. AInv => ReadsInOrder
  <2> SUFFICES ASSUME AInv PROVE ReadsInOrder
    OBVIOUS
  <2>1. ASSUME job = "file" PROVE out = SubSeq(Content(fs, ino), 1, file_position)
    <3>1. FileInv /\ Length \in Nat
      BY <2>1, AccessAssumption DEF AInv, Wellformed, Length
    <3> QED BY <3>1, PrefixIsSubSeq DEF FileInv
  <2> QED BY <2>1 DEF ReadsInOrder, AInv, DirInv, DirNames
<1> QED BY <1>1, <1>2, AInitInv, PTL DEF AccessSpec

(* The loader of sys_execute leaves exactly the program in memory, for     *)
(* every length of the program, of a block and of a read.                  *)
THEOREM LoaderExact == AccessSpec => []LoadExact
<1>1. AInv /\ [AccessNext]_avars => AInv'
  BY AInvStep
<1>2. AInv => LoadExact
  <2> SUFFICES ASSUME AInv, job = "load", pc = "done" PROVE out = Content(fs, ino)
    BY DEF LoadExact
  <2>1. out = Prefix(Length)
    BY DEF AInv, LoadInv, FileInv
  <2> QED BY <2>1 DEF Prefix, Content, Length
<1> QED BY <1>1, <1>2, AInitInv, PTL DEF AccessSpec

(* A read that asks for bytes returns 0 at the end of the file only.       *)
THEOREM ZeroMeansEnd == AccessSpec => ZeroAtEndOnly
<1>1. AInv /\ [AccessNext]_avars => AInv'
  BY AInvStep
<1>2. AInv => \A nbytes \in 1 .. MaxRead :
                FileRead(nbytes) /\ k' = 0 => file_position = fs.inode[ino].length
  <2> SUFFICES ASSUME AInv, NEW nbytes \in 1 .. MaxRead, FileRead(nbytes), k' = 0
               PROVE  file_position = fs.inode[ino].length
    OBVIOUS
  <2> DEFINE w == Readable(Length, file_position, nbytes)
  <2>1. FileInv /\ nbytes \in Nat \ {0}
    BY AccessAssumption DEF FileRead, AInv
  <2>2. /\ ReadData(fs, ino, file_position, nbytes) = w /\ w \in Nat
        /\ w < nbytes => file_position + w = Length
        /\ file_position \in Int
    BY <2>1, ReadHere DEF FileInv
  <2> HIDE DEF w
  <2>3. w = 0
    BY <2>2 DEF FileRead
  <2> QED BY <2>1, <2>2, <2>3 DEF Length
<1>3. AInv /\ [AccessNext]_avars =>
        [\A nbytes \in 1 .. MaxRead :
           FileRead(nbytes) /\ k' = 0 => file_position = fs.inode[ino].length]_avars
  BY <1>2
<1> QED BY <1>1, <1>3, AInitInv, PTL DEF AccessSpec, ZeroAtEndOnly

=============================================================================
