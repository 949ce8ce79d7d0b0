---------------------------- MODULE MCFileSystem ----------------------------
(***************************************************************************)
(* An instance of FileSystem for TLC.  The name long is cut to short.      *)
(* Four slots in the root directory leave two for files; six bits in a     *)
(* bitmap leave four inodes and five data blocks.                          *)
(***************************************************************************)
EXTENDS FileSystem, TLC

CONSTANTS short, long

MCCut == [n \in Names |-> IF n = long THEN short ELSE n]

\* Empty, a part of a block, one block, one and a part, three, and too many.
MCSizes == {0, 3, 8, 11, 24, 25}

MCRanges == {<<0, 1>>, <<5, 6>>, <<7, 2>>, <<8, 16>>, <<9, 30>>}

Symmetry == Permutations(Names \ {short, long})
=============================================================================
