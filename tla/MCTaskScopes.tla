----------------------------- MODULE MCTaskScopes ---------------------------
(* Task blocks checked with a main thread and two tasks. *)
EXTENDS TaskScopes

CONSTANTS h1, h2

TwoTasks == {h1, h2}
MainAndTwo == {Main, h1, h2}
=============================================================================
