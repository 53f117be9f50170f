------------------------------ MODULE TextFiles ------------------------------
(***************************************************************************)
(* Text files as the user programs see them: sequences of bytes, read from *)
(* the start, as many as are asked for or left (ReadsInOrder and           *)
(* ZeroAtEndOnly of FileAccess).                                           *)
(***************************************************************************)
EXTENDS Integers, Sequences, SequencesExt

NUL == 0
NL == 10
SP == 32

=============================================================================
