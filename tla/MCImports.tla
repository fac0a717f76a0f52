------------------------------ MODULE MCImports -----------------------------
(* Imports checked with two threads and three modules, one of them broken. *)
EXTENDS Imports, TLC

CONSTANTS t1, t2, a, b, broken

OneImporter == {t1}
TwoThreads == {t1, t2}
ThreeModules == {a, b, broken}
OneBroken == {broken}

\* Threads, and the modules that parse, are interchangeable.
Symmetry == Permutations(TwoThreads) \cup Permutations({a, b})
=============================================================================
