---------------------------- MODULE MCRepository ----------------------------
(* Two processes, and two programs: one branches, the other has code that is *)
(* dead until its last statement is there.                                   *)
EXTENDS Repository, TLC

CONSTANTS i1, i2, n1, n2, l, m

TwoClients == {i1, i2}
TwoNames == {n1, n2}
Branching == <<Stmt("if_goto", l), Stmt("plain", Nobody), Stmt("label", l)>>
Returning == <<Stmt("goto", l), Stmt("label", m), Stmt("label", l), Stmt("goto", m)>>
TwoSources == {Branching, Returning}

Symmetry == Permutations(TwoClients) \cup Permutations(TwoNames)
=============================================================================
