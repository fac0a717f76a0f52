--------------------------- MODULE MCDebugAdapter ---------------------------
(* Sessions with a run that may spawn a task, and another run after it or      *)
(* beside it.  Two files have one name in different places, and the program    *)
(* imports a module, which runs under a name of its own.                       *)
EXTENDS DebugAdapter

CONSTANTS task, p1, p2, name, imported

TwoRuns == {1, 2}
TaskAndRerun == {<<1, Main>>, <<1, task>>, <<2, Main>>}
TwoFiles == {p1, p2}
Names == {name, imported}
OneName == [p \in TwoFiles |-> name]
OneLine == {1}
=============================================================================
