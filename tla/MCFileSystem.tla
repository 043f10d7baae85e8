---------------------------- MODULE MCFileSystem ----------------------------
(***************************************************************************)
(* FileSystem on a disk of two blocks of two bytes, with at most two       *)
(* blocks a file and two files: one text fills a block, the other one and  *)
(* a half.  The two names that a file may have are alike.                  *)
(***************************************************************************)
EXTENDS FileSystem, TLC

CONSTANTS f, g

MCTexts == {<<1, 0>>, <<0, 1, 1>>}
MCSymmetry == Permutations({f, g})
=============================================================================
