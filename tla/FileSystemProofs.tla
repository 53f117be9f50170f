-------------------------- MODULE FileSystemProofs --------------------------
(***************************************************************************)
(* What read_data returns on a well-formed image, for any size of blocks   *)
(* and files.                                                              *)
(***************************************************************************)
EXTENDS FileSystem, NaturalsInduction, WellFoundedInduction, TLAPS

(* The rest of a file, or what is asked for.                               *)
Readable(len, off, n) == IF n <= len - off THEN n ELSE len - off

(* A position in a file has its block number in the inode.                 *)
LEMMA BlockOfPosition ==
  ASSUME NEW pos \in 0 .. MaxBlocks * BlockSize - 1
  PROVE  pos \div BlockSize \in 0 .. MaxBlocks - 1
<1> DEFINE q == pos \div BlockSize
           r == pos % BlockSize
<1>1. /\ q \in Nat /\ r \in Nat /\ pos = BlockSize * q + r
      /\ BlockSize \in Nat \ {0} /\ MaxBlocks \in Nat \ {0}
  BY BlockAssumption
<1> HIDE DEF q, r
<1>2. ASSUME q >= MaxBlocks PROVE FALSE
  <2>1. PICK d \in Nat : q = MaxBlocks + d
    <3>1. q - MaxBlocks \in Nat /\ q = MaxBlocks + (q - MaxBlocks)
      BY <1>1, <1>2
    <3> QED BY <3>1
  <2>2. BlockSize * q = MaxBlocks * BlockSize + BlockSize * d
    BY <1>1, <2>1
  <2>3. BlockSize * d \in Nat /\ MaxBlocks * BlockSize \in Nat
    BY <1>1
  <2> QED BY <1>1, <2>2, <2>3
<1> QED BY <1>1, <1>2 DEF q

(* On a well-formed image the block number of every position is in range,  *)
(* the one right behind the last byte included.                            *)
LEMMA InRange ==
  ASSUME NEW fs, Wellformed(fs), NEW ino \in 0 .. fs.inode_count - 1,
         NEW pos \in 0 .. fs.inode[ino].length
  PROVE  /\ ~OutOfRange(fs, ino, pos)
         /\ fs.inode[ino].length \in Nat
<1>1. fs.inode[ino].length \in 0 .. MaxBlocks * BlockSize - 1
  BY DEF Wellformed
<1>2. MaxBlocks * BlockSize \in Nat
  BY BlockAssumption
<1>3. pos \div BlockSize \in 0 .. MaxBlocks - 1
  BY <1>1, <1>2, BlockOfPosition
<1>4. Entry(fs, ino, pos) \in 0 .. fs.data_count - 1 /\ fs.data_count \in Nat
  BY <1>3 DEF Wellformed, Entry
<1> QED BY <1>1, <1>2, <1>4 DEF OutOfRange

(* read_data stops at the end of the request or of the file.               *)
LEMMA StopIndexExact ==
  ASSUME NEW fs, Wellformed(fs), NEW ino \in 0 .. fs.inode_count - 1,
         NEW off \in 0 .. fs.inode[ino].length, NEW n \in Nat
  PROVE  StopIndex(fs, ino, off, n) = Readable(fs.inode[ino].length, off, n)
<1> DEFINE len == fs.inode[ino].length
           w == Readable(len, off, n)
           S(i) == StopsAt(fs, ino, off, n, i)
           G(i) == S(i) /\ \A j \in 0 .. i - 1 : ~S(j)
<1>1. len \in Nat
  BY InRange
<1>2. w \in 0 .. n /\ off + w \in 0 .. len /\ (w = n \/ off + w = len)
  BY <1>1 DEF Readable
<1>3. S(w)
  BY <1>1, <1>2 DEF StopsAt, EofAt
<1>4. ASSUME NEW j \in 0 .. w - 1 PROVE ~S(j)
  <2>1. j \in Nat /\ j # n /\ off + j \in 0 .. len /\ ~(len <= off + j)
    BY <1>1, <1>2
  <2>2. ~OutOfRange(fs, ino, off + j)
    BY <2>1, InRange
  <2> QED BY <2>1, <2>2 DEF StopsAt, EofAt, BadBlockAt
<1>5. G(w)
  BY <1>3, <1>4
<1> HIDE DEF w, S, len
<1>6. ASSUME NEW i \in 0 .. n, G(i) PROVE i = w
  <2>1. CASE i < w
    BY <1>2, <1>4, <1>6, <2>1
  <2>2. CASE w < i
    BY <1>2, <1>3, <1>6, <2>2
  <2> QED BY <1>2, <2>1, <2>2
<1>7. StopIndex(fs, ino, off, n) = CHOOSE i \in 0 .. n : G(i)
  BY DEF StopIndex, S
<1> HIDE DEF G
<1> QED BY <1>2, <1>5, <1>6, <1>7, Zenon DEF w, len

(* On a well-formed image a read from within a file never fails and        *)
(* returns what was asked for, or what is left.                            *)
LEMMA ReadDataExact ==
  ASSUME NEW fs, Wellformed(fs), NEW ino \in 0 .. fs.inode_count - 1,
         NEW off \in 0 .. fs.inode[ino].length, NEW n \in Nat
  PROVE  ReadData(fs, ino, off, n) = Readable(fs.inode[ino].length, off, n)
<1> DEFINE len == fs.inode[ino].length
           w == Readable(len, off, n)
<1>1. ~OutOfRange(fs, ino, off) /\ len \in Nat
  BY InRange
<1>2. ~(ino >= fs.inode_count)
  BY DEF Wellformed
<1>3. w \in Nat /\ off + w \in 0 .. len
  BY <1>1 DEF Readable
<1>4. ~BadBlockAt(fs, ino, off, w)
  BY <1>3, InRange DEF BadBlockAt
<1> QED BY <1>1, <1>2, <1>4, StopIndexExact DEF ReadData

(* The bytes it copies are those of the content.                           *)
LEMMA ByteReadExact ==
  ASSUME NEW fs, NEW ino, NEW off \in Nat, NEW i \in Nat,
         fs.inode[ino].length \in Nat, off + i < fs.inode[ino].length
  PROVE  ByteRead(fs, ino, off, i) = Content(fs, ino)[off + i + 1]
<1>1. off + i + 1 \in 1 .. fs.inode[ino].length /\ off + i + 1 - 1 = off + i
  OBVIOUS
<1> QED BY <1>1 DEF ByteRead, Entry, Content

-----------------------------------------------------------------------------
LEMMA LeastElement ==
  ASSUME NEW T \in SUBSET Nat, T # {}
  PROVE  \E n \in T : \A m \in T : n <= m
<1> DEFINE R == OpToRel(<, Nat)
<1>1. IsWellFoundedOn(R, Nat)
  BY NatLessThanWellFounded
<1>2. \A x, y \in Nat : x < y => <<x, y>> \in R
  BY DEF OpToRel
<1> HIDE DEF R
<1>3. PICK x \in T : \A y \in T : ~ (<<y, x>> \in R)
  BY <1>1, WFMin
<1>4. \A y \in T : ~ (y < x) /\ x \in Nat /\ y \in Nat
  BY <1>2, <1>3
<1> QED BY <1>4

(* A name that read_dentry_by_name finds is the name of that entry.        *)
LEMMA DentryFound ==
  ASSUME NEW fs, Len(fs.direntries) \in Nat, NEW fname, DentryByName(fs, fname) # 0
  PROVE  /\ DentryByName(fs, fname) \in 1 .. Len(fs.direntries)
         /\ fs.direntries[DentryByName(fs, fname)].filename = fname
<1> DEFINE hits == {i \in 1 .. Len(fs.direntries) : fs.direntries[i].filename = fname}
<1>1. hits # {} /\ DentryByName(fs, fname) = CHOOSE i \in hits : \A j \in hits : i <= j
  BY DEF DentryByName
<1>2. hits \in SUBSET Nat
  OBVIOUS
<1> HIDE DEF hits
<1>3. \E i \in hits : \A j \in hits : i <= j
  BY <1>1, <1>2, LeastElement
<1>4. DentryByName(fs, fname) \in hits
  BY <1>1, <1>3, Zenon
<1> QED BY <1>4 DEF hits

=============================================================================
