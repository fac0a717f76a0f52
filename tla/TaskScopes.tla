----------------------------- MODULE TaskScopes -----------------------------
(***************************************************************************)
(* Task blocks: `task { ... }` pushes a TaskScope, spawn registers the     *)
(* handle of the new task in the innermost scope, and leaving the block    *)
(* pops a scope and joins its handles, each with a timeout after which the *)
(* task is cancelled.                                                      *)
(*                                                                         *)
(* All threads share the one list Runtime._task_scopes, so "innermost" is  *)
(* the scope pushed last by any thread, and the scope popped at the end of *)
(* a block need not be the one pushed at its beginning.  The history       *)
(* variables record what the program text says, which tasks were spawned   *)
(* between the braces of which block, and how they were treated.           *)
(*                                                                         *)
(* A scope is an object: the thread that registers a handle reads the      *)
(* innermost scope and then calls its add_handle, at whose entry another   *)
(* thread may run (CPython 3.11 and later switch threads at calls and      *)
(* backward jumps, so the test of the list and the read are one step).     *)
(*                                                                         *)
(* Tasks.tla has the steps inside join_handle and cancel_handle; here each *)
(* of them is one step.  Definitions named Bug... are mistakes one could   *)
(* make in the operation below them; the specification does not use them.  *)
(***************************************************************************)
EXTENDS Naturals, Sequences, FiniteSets, SequencesExt

CONSTANTS Main,       \* the interpreter's main thread
          Tasks,      \* tasks, identified with their worker threads and handles
          Blockers,   \* the threads whose code contains task blocks
          Failing,    \* the tasks whose function may raise an error
          MaxBlocks   \* bound: task blocks entered in a run

ASSUME ScopesAssumption == /\ Main \notin Tasks
                           /\ Blockers \subseteq Tasks \cup {Main}
                           /\ Failing \subseteq Tasks
                           /\ MaxBlocks \in Nat

Threads == Tasks \cup {Main}
Scopes == 1..MaxBlocks

VARIABLES handles,     \* TaskScope.handles of every scope created so far
          scopes,      \* _task_scopes, innermost last
          pc,          \* what a thread is doing; "off" and "done" for tasks
          starting,    \* the handle a thread has started and not yet registered
          target,      \* the scope a thread has read to register a handle in, or 0
          popped,      \* the scope whose handles a thread is joining, or 0
          visited,     \* how many of them the loop over it has come to
          cancelled,   \* handles whose flag is set
          failed,      \* handles that hold an error of the program
          blocks,      \* history: tasks spawned inside each open block of a thread
          leaving,     \* history: tasks spawned inside the block a thread is leaving
          left,        \* history: tasks spawned inside a block that has been left
          outer,       \* history: tasks spawned outside every block of their spawner
          late,        \* history: handles added to a scope that had been left
          cut,         \* history: scopes whose loop was ended by an error
          expired,     \* history: handles that a block cancelled
          users        \* history: threads that have opened a block or spawned

threadVars == <<starting, target, popped, visited>>
history == <<blocks, leaving, left, outer, late, cut, expired, users>>
vars == <<handles, scopes, pc, threadVars, cancelled, failed, history>>

-----------------------------------------------------------------------------
Init == /\ handles = <<>>
        /\ scopes = <<>>
        /\ pc = [t \in Threads |-> IF t = Main THEN "run" ELSE "off"]
        /\ starting = [t \in Threads |-> {}]
        /\ target = [t \in Threads |-> 0]
        /\ popped = [t \in Threads |-> 0]
        /\ visited = [t \in Threads |-> 0]
        /\ cancelled = {}
        /\ failed = {}
        /\ blocks = [t \in Threads |-> <<>>]
        /\ leaving = [t \in Threads |-> {}]
        /\ left = {}
        /\ outer = {}
        /\ late = {}
        /\ cut = {}
        /\ expired = {}
        /\ users = {}

\* A thread begins a statement unless its task has been cancelled.
AtStatement(t) == pc[t] = "run" /\ t \notin cancelled

ThreadGoes(t, there) == pc' = [pc EXCEPT ![t] = there]

\* A scope that is neither on the list nor being left.
HasBeenLeft(s) == ~Contains(scopes, s) /\ \A t \in Threads : popped[t] # s

\* _push_task_scope
EnterBlock(t) ==
    /\ AtStatement(t)
    /\ t \in Blockers
    /\ Len(handles) < MaxBlocks
    /\ handles' = Append(handles, <<>>)
    /\ scopes' = Append(scopes, Len(handles) + 1)
    /\ blocks' = [blocks EXCEPT ![t] = Append(@, {})]
    /\ users' = users \cup {t}
    /\ UNCHANGED <<pc, threadVars, cancelled, failed, leaving, left, outer, late, cut, expired>>

\* The first half of _start_task: worker.start().  From here on the new thread
\* runs, and may itself enter a block or spawn.
StartTask(t, h) ==
    /\ AtStatement(t)
    /\ pc[h] = "off"
    /\ pc' = [pc EXCEPT ![h] = "run", ![t] = "register"]
    /\ starting' = [starting EXCEPT ![t] = {h}]
    /\ \/ /\ blocks[t] # <<>>
          /\ blocks' = [blocks EXCEPT ![t][Len(blocks[t])] = @ \cup {h}]
          /\ UNCHANGED outer
       \/ /\ blocks[t] = <<>>
          /\ outer' = outer \cup {h}
          /\ UNCHANGED blocks
    /\ users' = users \cup {t}
    /\ UNCHANGED <<handles, scopes, target, popped, visited, cancelled, failed,
                   leaving, left, late, cut, expired>>

\* The second half, _register_task_handle: whatever scope is innermost now is the
\* one to register in, ...
RegisterTask(t) ==
    /\ pc[t] = "register"
    /\ \/ /\ scopes # <<>>
          /\ target' = [target EXCEPT ![t] = Last(scopes)]
          /\ ThreadGoes(t, "add")
          /\ UNCHANGED starting
       \/ /\ scopes = <<>>
          /\ starting' = [starting EXCEPT ![t] = {}]
          /\ ThreadGoes(t, "run")
          /\ UNCHANGED target
    /\ UNCHANGED <<handles, scopes, popped, visited, cancelled, failed, history>>

\* ... add_handle puts it there, also when another thread has popped the scope.
AddHandle(t) ==
    /\ pc[t] = "add"
    /\ \E h \in starting[t] :
          /\ handles' = [handles EXCEPT ![target[t]] = Append(@, h)]
          /\ late' = IF HasBeenLeft(target[t]) THEN late \cup {h} ELSE late
    /\ starting' = [starting EXCEPT ![t] = {}]
    /\ target' = [target EXCEPT ![t] = 0]
    /\ ThreadGoes(t, "run")
    /\ UNCHANGED <<scopes, popped, visited, cancelled, failed,
                   blocks, leaving, left, outer, cut, expired, users>>

\* cancel(h), or the cancel of a token, in some statement.
CancelTask(t, h) ==
    /\ AtStatement(t)
    /\ pc[h] \notin {"off", "done"}
    /\ cancelled' = cancelled \cup {h}
    /\ UNCHANGED <<handles, scopes, pc, threadVars, failed, history>>

\* The scope is looked at and stays on the list.
BugExitPeeks(t) ==
    /\ pc[t] = "run"
    /\ blocks[t] # <<>>
    /\ popped' = [popped EXCEPT ![t] = IF scopes = <<>> THEN 0 ELSE Last(scopes)]
    /\ visited' = [visited EXCEPT ![t] = 0]
    /\ leaving' = [leaving EXCEPT ![t] = Last(blocks[t])]
    /\ blocks' = [blocks EXCEPT ![t] = Front(@)]
    /\ ThreadGoes(t, "exit")
    /\ UNCHANGED <<handles, scopes, starting, target, cancelled, failed,
                   left, outer, late, cut, expired, users>>

\* The end of a block, normal or by an exception (also the one that stops a
\* cancelled task): _pop_task_scope takes the innermost scope, if there is one.
ExitBlock(t) ==
    /\ pc[t] = "run"
    /\ blocks[t] # <<>>
    /\ popped' = [popped EXCEPT ![t] = IF scopes = <<>> THEN 0 ELSE Last(scopes)]
    /\ scopes' = IF scopes = <<>> THEN scopes ELSE Front(scopes)
    /\ visited' = [visited EXCEPT ![t] = 0]
    /\ leaving' = [leaving EXCEPT ![t] = Last(blocks[t])]
    /\ blocks' = [blocks EXCEPT ![t] = Front(@)]
    /\ ThreadGoes(t, "exit")
    /\ UNCHANGED <<handles, starting, target, cancelled, failed,
                   left, outer, late, cut, expired, users>>

\* The list iterator of the loop sees handles that are added while it runs.
MoreHandles(t) == popped[t] # 0 /\ visited[t] < Len(handles[popped[t]])

\* The join of a block is called without cancel_on_timeout,
BugLeavesRunning(t, h) == /\ pc[h] # "done"
                          /\ visited' = [visited EXCEPT ![t] = @ + 1]
                          /\ UNCHANGED <<popped, cancelled, cut, expired>>

\* waits for the cancelled task once more,
BugJoinsAgain(t, h) == /\ pc[h] # "done"
                       /\ cancelled' = cancelled \cup {h}
                       /\ expired' = expired \cup {h}
                       /\ UNCHANGED <<popped, visited, cut>>

\* or without a timeout.
BugWaitsForever(t, h) == FALSE

\* join_handle(timeout_ms, cancel_on_timeout=True) on the next handle.  A task
\* that is not done in time is cancelled and left behind.
JoinTimesOut(t, h) == /\ pc[h] # "done"
                      /\ cancelled' = cancelled \cup {h}
                      /\ expired' = expired \cup {h}
                      /\ visited' = [visited EXCEPT ![t] = @ + 1]
                      /\ UNCHANGED <<popped, cut>>

JoinSucceeds(t, h) == /\ pc[h] = "done"
                      /\ h \notin cancelled \cup failed
                      /\ visited' = [visited EXCEPT ![t] = @ + 1]
                      /\ UNCHANGED <<popped, cancelled, cut, expired>>

\* The error of a task, or its cancellation, is raised: it leaves the loop, and
\* the handles that follow are not looked at.
JoinRaises(t, h) == /\ pc[h] = "done"
                    /\ h \in cancelled \cup failed
                    /\ popped' = [popped EXCEPT ![t] = 0]
                    /\ cut' = cut \cup {popped[t]}
                    /\ UNCHANGED <<visited, cancelled, expired>>

JoinNext(t) ==
    /\ pc[t] = "exit"
    /\ MoreHandles(t)
    /\ LET h == handles[popped[t]][visited[t] + 1]
       IN  JoinTimesOut(t, h) \/ JoinSucceeds(t, h) \/ JoinRaises(t, h)
    /\ UNCHANGED <<handles, scopes, pc, starting, target, failed,
                   blocks, leaving, left, outer, late, users>>

\* The program goes on behind the block, or in whatever catches the error.
AfterBlock(t) ==
    /\ pc[t] = "exit"
    /\ ~MoreHandles(t)
    /\ popped' = [popped EXCEPT ![t] = 0]
    /\ visited' = [visited EXCEPT ![t] = 0]
    /\ ThreadGoes(t, "run")
    /\ left' = left \cup leaving[t]
    /\ leaving' = [leaving EXCEPT ![t] = {}]
    /\ UNCHANGED <<handles, scopes, starting, target, cancelled, failed,
                   blocks, outer, late, cut, expired, users>>

\* The function of a task ends, outside of all its blocks; it may have raised.
Finish(t) ==
    /\ t \in Tasks
    /\ pc[t] = "run"
    /\ blocks[t] = <<>>
    /\ ThreadGoes(t, "done")
    /\ failed' \in IF t \in Failing THEN {failed, failed \cup {t}} ELSE {failed}
    /\ UNCHANGED <<handles, scopes, threadVars, cancelled, history>>

Leave(t) == JoinNext(t) \/ AfterBlock(t)

Next == \E t \in Threads : \/ EnterBlock(t)
                           \/ \E h \in Tasks : StartTask(t, h) \/ CancelTask(t, h)
                           \/ RegisterTask(t)
                           \/ AddHandle(t)
                           \/ ExitBlock(t)
                           \/ JoinNext(t)
                           \/ AfterBlock(t)
                           \/ Finish(t)

Spec == Init /\ [][Next]_vars

\* Every wait of a scope's exit has a timeout, and the threads are scheduled.
FairSpec == Spec /\ \A t \in Threads : WF_vars(Leave(t))

-----------------------------------------------------------------------------
\* The type of every variable; a thread holds a handle exactly between starting
\* and registering it, and a scope to put it in exactly before add_handle.
TypeOK ==
    /\ handles \in Seq(Seq(Tasks)) /\ Len(handles) <= MaxBlocks
    /\ scopes \in Seq(DOMAIN handles)
    /\ pc \in [Threads -> {"off", "run", "register", "add", "exit", "done"}]
    /\ starting \in [Threads -> SUBSET Tasks]
    /\ target \in [Threads -> {0} \cup DOMAIN handles]
    /\ \A t \in Threads : /\ pc[t] \in {"register", "add"} <=> starting[t] # {}
                          /\ pc[t] = "add" <=> target[t] # 0
                          /\ popped[t] # 0 => pc[t] = "exit"
    /\ popped \in [Threads -> {0} \cup DOMAIN handles]
    /\ visited \in [Threads -> Nat]
    /\ cancelled \subseteq Tasks
    /\ failed \subseteq Failing
    /\ blocks \in [Threads -> Seq(SUBSET Tasks)]
    /\ leaving \in [Threads -> SUBSET Tasks]
    /\ left \cup outer \cup late \cup expired \subseteq Tasks
    /\ cut \subseteq DOMAIN handles
    /\ users \subseteq Threads

\* The blocks that are open: a thread's first, second, ... innermost.
OpenBlocks == UNION {{t} \X DOMAIN blocks[t] : t \in Threads}

\* Threads may take each other's scopes, but the list never runs empty under an
\* open block and never keeps a scope nobody will pop: there are as many scopes
\* as open blocks in all threads together.
ScopeBalance == Len(scopes) = Cardinality(OpenBlocks)

Resolved(h) == pc[h] = "done" \/ h \in cancelled

\* The docstring of TaskScope: "Track spawned handles that must resolve before
\* exiting a task block".  Once a scope has been left, by whichever thread, and
\* no error has cut its loop short, its handles have finished or are cancelled.
HandlesResolve ==
    \A s \in DOMAIN handles \ cut :
        HasBeenLeft(s) => \A i \in DOMAIN handles[s] : Resolved(handles[s][i])

\* The one way a handle is lost without an error: add_handle came after the loop
\* had ended.  All others resolve, even in a scope that the wrong thread popped,
\* and also when they were added while the loop was running.
RegisteredSettles ==
    \A s \in DOMAIN handles \ cut :
        HasBeenLeft(s) =>
            \A i \in DOMAIN handles[s] : Resolved(handles[s][i]) \/ handles[s][i] \in late

\* docs/structured_concurrency.md: "When a scope exits normally or via error, all
\* linked tasks are joined with a bounded timeout and cancelled if still running".
\* After a block no task spawned between its braces runs on uncancelled.
BlockContainsTasks == \A h \in left : Resolved(h)

\* tests/detailtests/test_concurrency.py: "outer spawns are not cancelled by inner
\* task blocks".  A task spawned outside every block of its spawner is cancelled
\* by no block.
OuterTasksSurvive == outer \cap expired = {}

\* All these promises are kept as long as one thread alone opens blocks and spawns,
\* and no join has raised: then the scope popped is the one pushed at the beginning
\* of the block, with exactly the tasks spawned in between, also when blocks nest.
AloneKeepsPromises ==
    (\E t \in Threads : users \subseteq {t}) /\ cut = {}
        => BlockContainsTasks /\ OuterTasksSurvive /\ HandlesResolve

\* An error that a block ends with is one of a task that failed, or that the program
\* cancelled.  The cancellation that a block asked for after its own timeout is
\* raised by none, whoever pops the scope and whoever else cancels the task meanwhile.
NoTimeoutRaises ==
    [][\A t \in Threads :
          pc'[t] = "exit" /\ popped[t] # 0 /\ popped'[t] = 0
              => handles[popped[t]][visited[t] + 1] \notin expired]_vars

\* Leaving a block takes finitely many steps, also when the thread joins itself or
\* two threads join each other: the timeouts resolve every cycle.
ExitEnds == \A t \in Threads : pc[t] = "exit" ~> pc[t] = "run"
=============================================================================
