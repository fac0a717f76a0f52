---------------------------- MODULE MCCopyOnCall ----------------------------
(* The plain number 2 names the second block, an original or a copy. *)
EXTENDS CopyOnCall
OnlyTwo == {2}
=============================================================================
