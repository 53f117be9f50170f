------------------------- MODULE MCFileDescriptors -------------------------
(***************************************************************************)
(* A disk with the directory, the rtc and a file of more than one block.   *)
(***************************************************************************)
EXTENDS Syserr, TLC

MCDisk ==
  [direntries |-> <<[filename |-> ".", filetype |-> DirType, inode_num |-> 0],
                    [filename |-> "rtc", filetype |-> RtcType, inode_num |-> 0],
                    [filename |-> "f", filetype |-> RegularType, inode_num |-> 1]>>,
   inode_count |-> 2,
   data_count |-> 2,
   inode |-> (0 :> [length |-> 0, data_block_num |-> (0 :> 0 @@ 1 :> 0)]
              @@ 1 :> [length |-> 3, data_block_num |-> (0 :> 1 @@ 1 :> 0)])]

=============================================================================
