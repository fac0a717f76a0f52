------------------------------ MODULE Channel -------------------------------
(***************************************************************************)
(* stdlib._Channel, the bounded FIFO channel behind Async.channel/send/    *)
(* recv/close, shared by the interpreter thread and the spawned workers.   *)
(*                                                                         *)
(* One lock protects the buffer and the closed flag, and both condition    *)
(* variables share it, so a method runs atomically from acquiring the lock *)
(* to releasing it: at its return, or inside Condition.wait.  A thread     *)
(* that waits is in not_full or not_empty; notify takes it out, and it     *)
(* then competes for the lock again with every thread that calls a method  *)
(* for the first time (Resume against Send, Recv).                         *)
(*                                                                         *)
(* Definitions named Bug... are mistakes one could make in the operation   *)
(* below them.  The specification does not use them: PROJECT.json says     *)
(* which property fails when one takes the place of the real definition.   *)
(***************************************************************************)
EXTENDS Integers, Sequences, FiniteSets

CONSTANTS Threads,            \* the threads that run Tiny code
          Values,             \* the values they send
          RequestedCapacity,  \* the argument of Async.channel
          MaxSends            \* bound: no new send once this many are accepted

ASSUME ChannelAssumption == /\ IsFiniteSet(Threads)
                            /\ RequestedCapacity \in Int
                            /\ MaxSends \in Nat

VARIABLES buffer,      \* deque of the values sent and not yet received
          closed,
          pc,          \* the method a thread is inside of, or "idle"
          arg,         \* the value of the thread's latest send
          not_full,    \* threads waiting on the condition of that name
          not_empty,
          sent,        \* history: the values of the sends that returned True
          received,    \* history: the values recv returned
          gotNull      \* history: some recv returned None

vars == <<buffer, closed, pc, arg, not_full, not_empty, sent, received, gotNull>>
history == <<sent, received, gotNull>>

-----------------------------------------------------------------------------
\* _Channel.__init__: a negative capacity is taken as zero.
capacity == IF RequestedCapacity < 0 THEN 0 ELSE RequestedCapacity

Init == /\ buffer = <<>>
        /\ closed = FALSE
        /\ pc = [t \in Threads |-> "idle"]
        /\ arg \in [Threads -> Values]
        /\ not_full = {}
        /\ not_empty = {}
        /\ sent = <<>>
        /\ received = <<>>
        /\ gotNull = FALSE

\* The notify is forgotten.
BugNotifyNobody(waiters) == {waiters}

\* Condition.notify: releases one of the waiting threads, if there is one.
OneFewer(waiters) == IF waiters = {} THEN {{}} ELSE {waiters \ {t} : t \in waiters}

Enter(t, method) == pc' = [pc EXCEPT ![t] = method]
Return(t) == pc' = [pc EXCEPT ![t] = "idle"]

-----------------------------------------------------------------------------
\* The body of send(v) from the moment the thread holds the lock: the loop
\* condition, then either another wait or one of the two returns.
SendWait(t) == /\ Len(buffer) >= capacity
               /\ ~closed
               /\ not_full' = not_full \cup {t}
               /\ Enter(t, "send")
               /\ UNCHANGED <<buffer, closed, not_empty, history>>

SendRefused(t) == /\ closed
                  /\ Return(t)
                  /\ UNCHANGED <<buffer, closed, not_full, not_empty, history>>

\* send does not look at the closed flag again after its wait.
BugSendClosed(t, v) == /\ Len(buffer) < capacity
                       /\ buffer' = Append(buffer, v)
                       /\ not_empty' \in OneFewer(not_empty)
                       /\ sent' = Append(sent, v)
                       /\ Return(t)
                       /\ UNCHANGED <<closed, not_full, received, gotNull>>

SendAccepted(t, v) == /\ Len(buffer) < capacity
                      /\ ~closed
                      /\ buffer' = Append(buffer, v)
                      /\ not_empty' \in OneFewer(not_empty)
                      /\ sent' = Append(sent, v)
                      /\ Return(t)
                      /\ UNCHANGED <<closed, not_full, received, gotNull>>

SendBody(t, v) == SendWait(t) \/ SendRefused(t) \/ SendAccepted(t, v)

\* The body of recv().
RecvWait(t) == /\ buffer = <<>>
               /\ ~closed
               /\ not_empty' = not_empty \cup {t}
               /\ Enter(t, "recv")
               /\ UNCHANGED <<buffer, closed, not_full, history>>

\* recv gives up as soon as the channel is closed, whatever is buffered.
BugRecvNullEarly(t) == /\ closed
                       /\ gotNull' = TRUE
                       /\ Return(t)
                       /\ UNCHANGED <<buffer, closed, not_full, not_empty, sent, received>>

RecvNull(t) == /\ buffer = <<>>
               /\ closed
               /\ gotNull' = TRUE
               /\ Return(t)
               /\ UNCHANGED <<buffer, closed, not_full, not_empty, sent, received>>

RecvValue(t) == /\ buffer # <<>>
                /\ buffer' = Tail(buffer)
                /\ received' = Append(received, Head(buffer))
                /\ not_full' \in OneFewer(not_full)
                /\ Return(t)
                /\ UNCHANGED <<closed, not_empty, sent, gotNull>>

RecvBody(t) == RecvWait(t) \/ RecvNull(t) \/ RecvValue(t)

-----------------------------------------------------------------------------
\* A thread calls Async.send or Async.recv.
Send(t, v) == /\ pc[t] = "idle"
              /\ Len(sent) < MaxSends
              /\ arg' = [arg EXCEPT ![t] = v]
              /\ SendBody(t, v)

Recv(t) == /\ pc[t] = "idle"
           /\ RecvBody(t)
           /\ UNCHANGED arg

\* A notified thread gets the lock back and evaluates its loop condition again.
ResumeSend(t) == /\ pc[t] = "send"
                 /\ t \notin not_full
                 /\ SendBody(t, arg[t])
                 /\ UNCHANGED arg

ResumeRecv(t) == /\ pc[t] = "recv"
                 /\ t \notin not_empty
                 /\ RecvBody(t)
                 /\ UNCHANGED arg

\* notify for notify_all.
BugCloseNotifiesOne(t) == /\ pc[t] = "idle"
                          /\ closed' = TRUE
                          /\ not_full' \in OneFewer(not_full)
                          /\ not_empty' \in OneFewer(not_empty)
                          /\ UNCHANGED <<buffer, pc, arg, history>>

\* Async.close: sets the flag and wakes every waiter (notify_all, twice).
Close(t) == /\ pc[t] = "idle"
            /\ closed' = TRUE
            /\ not_full' = {}
            /\ not_empty' = {}
            /\ UNCHANGED <<buffer, pc, arg, history>>

Resume(t) == ResumeSend(t) \/ ResumeRecv(t)

Next == \E t \in Threads : \/ \E v \in Values : Send(t, v)
                           \/ Recv(t)
                           \/ ResumeSend(t)
                           \/ ResumeRecv(t)
                           \/ Close(t)

Spec == Init /\ [][Next]_vars

\* A notified thread is only waiting for the lock, which every method gives up
\* after a few instructions, so it eventually runs.  Nothing obliges a program
\* to call a method.
FairSpec == Spec /\ \A t \in Threads : WF_vars(Resume(t))

-----------------------------------------------------------------------------
\* Every variable keeps its type; a thread waits on a condition only while it
\* is inside the method that waits on that condition.
TypeOK == /\ buffer \in Seq(Values)
          /\ closed \in BOOLEAN
          /\ pc \in [Threads -> {"idle", "send", "recv"}]
          /\ arg \in [Threads -> Values]
          /\ not_full \subseteq {t \in Threads : pc[t] = "send"}
          /\ not_empty \subseteq {t \in Threads : pc[t] = "recv"}
          /\ sent \in Seq(Values)
          /\ received \in Seq(Values)
          /\ gotNull \in BOOLEAN

\* First in, first out, nothing lost and nothing delivered twice: what was
\* accepted is what was received followed by what is still buffered, whatever
\* threads sent and received it (send's append against recv's popleft).
Fifo == sent = received \o buffer

\* Threads that have been notified and have not run yet.
WokenSenders == {t \in Threads : pc[t] = "send"} \ not_full
WokenReceivers == {t \in Threads : pc[t] = "recv"} \ not_empty

\* On the sending side: while a sender sleeps, every free slot is
\* matched by a notified sender that has yet to run, although threads calling
\* send for the first time may take the slot before it (the single notify of
\* recv and the while loop of send are enough).
NoLostSender ==
    not_full # {} => /\ ~closed
                     /\ capacity - Len(buffer) <= Cardinality(WokenSenders)

\* On the receiving side: while a receiver sleeps, every buffered value
\* is matched by a notified receiver that has yet to run.
NoLostReceiver ==
    not_empty # {} => /\ ~closed
                      /\ Len(buffer) <= Cardinality(WokenReceivers)

\* No wakeup of send or recv is lost, although both sides notify one thread only
\* and threads that call for the first time may overtake it.
NoLostWakeup == NoLostSender /\ NoLostReceiver

\* A program that reads None from recv may conclude that nothing is left: every
\* value whose send returned True has been received, now and for ever.
NullMeansDrained == gotNull => closed /\ received = sent

\* Closing wakes everybody: once the channel is closed each thread blocked in
\* send or recv returns (both notify_all of close).
CloseWakesAll == \A t \in Threads : closed ~> (pc[t] = "idle")

\* A buffered value is not stranded while some thread is inside recv: it, or a
\* later one, is eventually delivered.
ValuesMoveOn ==
    \A n \in 0 .. MaxSends :
        (/\ buffer # <<>>
         /\ Len(received) = n
         /\ \E t \in Threads : pc[t] = "recv") ~> (Len(received) > n)

\* The channel implements the abstract queue (its methods' return values are
\* those of a queue nobody sees half way through an operation).
AQ == INSTANCE AsyncQueue WITH Bound <- capacity
QueueSpec == AQ!Spec
=============================================================================
