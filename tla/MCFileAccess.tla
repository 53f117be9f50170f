---------------------------- MODULE MCFileAccess ----------------------------
(***************************************************************************)
(* Images for FileAccess: one file of every length below MaxBlocks blocks, *)
(* its blocks any distinct data blocks, beside an empty file.              *)
(***************************************************************************)
EXTENDS FileAccess, FiniteSets, TLC

DataBlocks == 4

Used(len) == (len + BlockSize - 1) \div BlockSize

BlockLists(len) ==
  {b \in [0 .. MaxBlocks - 1 -> 0 .. DataBlocks - 1] :
     /\ Cardinality({b[i] : i \in 0 .. Used(len) - 1}) = Used(len)
     /\ \A i \in Used(len) .. MaxBlocks - 1 : b[i] = 0}

ImageOf(len, blocks) ==
  [direntries |-> <<[filename |-> ".", filetype |-> DirType, inode_num |-> 0],
                    [filename |-> "f", filetype |-> RegularType, inode_num |-> 1]>>,
   inode_count |-> 2,
   data_count |-> DataBlocks,
   inode |-> (0 :> [length |-> 0, data_block_num |-> [b \in 0 .. MaxBlocks - 1 |-> 0]]
              @@ 1 :> [length |-> len, data_block_num |-> blocks])]

MCImages ==
  UNION {{ImageOf(len, b) : b \in BlockLists(len)} :
            len \in 0 .. MaxBlocks * BlockSize - 1}

=============================================================================
