-------------------------- MODULE MCChannelWorkers --------------------------
(* The channel checked with two threads that are no workers, such as the    *)
(* interpreter's main thread, and one worker.                               *)
EXTENDS ChannelWorkers

CONSTANTS main, other, w1, v1, v2

ThreeThreads == {main, other, w1}
OneWorker == {w1}
TwoValues == {v1, v2}

\* The arguments before a first send are irrelevant: one initial state is enough.
MCInit == WorkersInit /\ arg = [t \in Threads |-> v1]
MCSpec == MCInit /\ [][WorkersNext]_allVars /\ WorkersFairness
=============================================================================
