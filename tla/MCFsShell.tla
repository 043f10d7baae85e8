----------------------------- MODULE MCFsShell -----------------------------
(***************************************************************************)
(* FsShell with two texts of one character.                                *)
(***************************************************************************)
EXTENDS FsShell

MCTexts == {<<0>>, <<1>>}
=============================================================================
