------------------------------- MODULE MCHeap -------------------------------
(* The heap checked with two threads that share a block of up to two cells. *)
EXTENDS Heap, TLC

CONSTANTS t1, t2

TwoThreads == {t1, t2}
OneLabel == {"Node"}
ThreadSymmetry == Permutations(TwoThreads)
=============================================================================
