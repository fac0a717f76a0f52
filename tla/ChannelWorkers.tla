--------------------------- MODULE ChannelWorkers ---------------------------
(***************************************************************************)
(* Spawned workers that use one channel and may be cancelled: the channel  *)
(* of Channel.tla driven by the statement loop of the interpreter.         *)
(*                                                                         *)
(* eval_stmt looks at the cancelled flag of the worker's handle before a   *)
(* statement, and only there.  A statement may call the channel any number *)
(* of times, send(c, recv(c)) twice, while (recv(c)) {} without end, and   *)
(* contain statements of its own, which are checked in their turn.  The    *)
(* flag may be set at any moment of this, while a call is blocked too, and *)
(* setting it notifies nobody.  Threads that are not workers, such as the  *)
(* main thread, call the channel whenever they like.                       *)
(***************************************************************************)
EXTENDS Channel

CONSTANT Workers

ASSUME WorkersAssumption == Workers \subseteq Threads

VARIABLES cancelled,   \* workers whose handle's flag is set
          checked,     \* workers past the check of a statement that has not ended
          stopped      \* workers whose function has ended

workerVars == <<cancelled, checked, stopped>>
allVars == <<vars, workerVars>>

WorkersInit == /\ Init
               /\ cancelled = {}
               /\ checked = {}
               /\ stopped = {}

\* cancel(handle), or the cancel of a linked token.
Cancel(w) == /\ cancelled' = cancelled \cup {w}
             /\ UNCHANGED <<vars, checked, stopped>>

\* The flag is not looked at.
BugNoCheck(w) == /\ pc[w] = "idle"
                 /\ w \notin stopped
                 /\ checked' = checked \cup {w}
                 /\ UNCHANGED <<vars, cancelled, stopped>>

\* _raise_if_spawn_cancelled at the start of a statement, or of a statement inside
\* the one the worker is in.
CheckStatement(w) ==
    /\ pc[w] = "idle"
    /\ w \notin stopped
    /\ \/ /\ w \in cancelled
          /\ stopped' = stopped \cup {w}
          /\ checked' = checked \ {w}
       \/ /\ w \notin cancelled
          /\ checked' = checked \cup {w}
          /\ UNCHANGED stopped
    /\ UNCHANGED <<vars, cancelled>>

\* The statement calls a method of the channel, for the first time or again.
CallChannel(w) == /\ w \in checked
                  /\ Recv(w) \/ Close(w) \/ \E v \in Values : Send(w, v)
                  /\ UNCHANGED workerVars

\* The statement ends, and the function with it when it was the last one.
EndStatement(w) == /\ pc[w] = "idle"
                   /\ w \in checked
                   /\ checked' = checked \ {w}
                   /\ stopped' \in {stopped, stopped \cup {w}}
                   /\ UNCHANGED <<vars, cancelled>>

\* A blocked thread resumes; a thread that is no worker calls.
ResumeThread(t) == /\ Resume(t)
                   /\ UNCHANGED workerVars

CallFreely(t) == /\ t \in Threads \ Workers
                 /\ Recv(t) \/ Close(t) \/ \E v \in Values : Send(t, v)
                 /\ UNCHANGED workerVars

Proceed(w) == CheckStatement(w) \/ EndStatement(w)

WorkersNext == \/ \E w \in Workers : \/ Cancel(w)
                                     \/ CheckStatement(w)
                                     \/ CallChannel(w)
                                     \/ EndStatement(w)
               \/ \E t \in Threads : ResumeThread(t) \/ CallFreely(t)

WorkersSpec == WorkersInit /\ [][WorkersNext]_allVars

\* Every thread that can run does, and a statement none of whose calls is blocked
\* reaches its end or a statement inside it (not so that of while (true) {}, which
\* is about no channel).  Nobody has to cancel, or to call.
WorkersFairness == /\ \A w \in Workers : WF_allVars(Proceed(w))
                   /\ \A t \in Threads : WF_allVars(ResumeThread(t))

FairWorkersSpec == WorkersSpec /\ WorkersFairness

-----------------------------------------------------------------------------
\* Cancelling a worker that is blocked in the channel does not wake it, but once
\* the channel is closed it ends: the close wakes it, and whatever else its
\* statement does, the next check of the flag stops it.
CloseEndsCancelled == \A w \in Workers : (closed /\ w \in cancelled) ~> (w \in stopped)
=============================================================================
