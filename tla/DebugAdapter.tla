----------------------------- MODULE DebugAdapter ---------------------------
(***************************************************************************)
(* A debugging session: the adapter between an editor and the interpreter, *)
(* and the interpreter's Debugger.                                         *)
(*                                                                         *)
(* Three kinds of threads share the adapter.  The reader handles the       *)
(* client's requests one after the other; the watchdog starts a launch the *)
(* client does not complete; and a program thread runs the program, every  *)
(* statement of which asks the Debugger whether to stop.  A stopped thread *)
(* waits for a command in the adapter's queue, and goes on by itself after *)
(* a timeout.  A run has one Debugger, which the tasks it spawns share.    *)
(*                                                                         *)
(* What the program executes is open, and so is what the client sends,     *)
(* except that it begins with initialize, as the protocol wants it, and    *)
(* sends continue and steps only for a stop it was told of.                *)
(* Definitions named Bug... are mistakes one could make in the operation   *)
(* below them; the specification does not use them.                        *)
(***************************************************************************)
EXTENDS Integers, Sequences, FiniteSets

CONSTANTS Runs,         \* the runs of the program, a set 1..n
          Main,         \* the thread of a run that executes the program itself
          Threads,      \* the threads of the runs, pairs of a run and a name
          Paths,        \* source files
          Namespaces,   \* the names modules run under, those of imported ones too
          NamespaceOf,  \* _namespace_for_path: the dotted path of a file under the
                        \* working directory, and the bare name of one elsewhere
          Lines,        \* the lines where breakpoints are set
          MaxDepth,     \* bound: the depth of the call stack
          MaxMessages   \* bound: requests after initialize

Program(r) == <<r, Main>>

ASSUME DebugAssumption == /\ Cardinality(Runs) \in Nat \ {0}
                          /\ Runs = 1..Cardinality(Runs)
                          /\ {Program(r) : r \in Runs} \subseteq Threads
                          /\ \A t \in Threads : t[1] \in Runs
                          /\ NamespaceOf \in [Paths -> Namespaces]
                          /\ MaxDepth \in Nat /\ MaxMessages \in Nat
                          /\ 0 \notin Lines

\* Where a statement is; line 0 stands for the lines without breakpoints.
Places == Namespaces \X (Lines \cup {0})
Commands == {"continue", "step_in", "step_over", "step_out"}

VARIABLES
  adapter,      \* DAPServer: the flags of the session, the runs of
                \* _debugger_instance and _thread (0 for None)
  breakpoints,  \* DAPServer._breakpoints
  queue,        \* DAPServer._command_queue
  dbg,          \* the Debugger of each run
  reader,       \* where the reader is, and the breakpoints it is to apply
  watchdog,     \* where the watchdog is
  thr,          \* where each thread is; for its loop over the files, those left
                \* and the number at the start; what it is to apply; its stop
  client,       \* the requests sent, whether it takes the program for stopped
  past          \* history: whether a stop timed out, breakpoints were set while a thread
                \* went through them, or a run began beside another; whether the
                \* client is silent since a timeout

vars == <<adapter, breakpoints, queue, dbg, reader, watchdog, thr, client, past>>

Nothing == <<>>
NoStep == -1
Ready == [at |-> "ready", apply |-> Nothing]
At(place) == {t \in Threads : thr[t].at = place}
Live(t) == thr[t].at \notin {"off", "ended", "dead"}

Init == /\ adapter = [initialized |-> FALSE, launch |-> FALSE, program |-> FALSE,
                      configured |-> FALSE, warned |-> FALSE,
                      debugger |-> 0, thread |-> 0]
        /\ breakpoints = <<>>
        /\ queue = <<>>
        /\ dbg = [r \in Runs |-> [bps |-> [n \in Namespaces |-> {}], force |-> FALSE,
                                  step |-> NoStep, last |-> Nothing]]
        /\ reader = Ready
        /\ watchdog = "watch"
        /\ thr = [t \in Threads |-> [at |-> "off", left |-> {}, size |-> 0,
                                     apply |-> Nothing, stop |-> Nothing]]
        /\ client = [messages |-> 0, told |-> FALSE]
        /\ past = [expired |-> FALSE, overlap |-> FALSE, silence |-> "no"]

-----------------------------------------------------------------------------
\* A request arrives while the reader waits for one.
Message == /\ reader.at = "ready" /\ adapter.initialized
           /\ client.messages < MaxMessages
           /\ client' = [client EXCEPT !.messages = @ + 1]

Talk == past' = [past EXCEPT !.silence = "no"]

Initialize == /\ reader.at = "ready" /\ ~adapter.initialized
              /\ adapter' = [adapter EXCEPT !.initialized = TRUE]
              /\ UNCHANGED <<breakpoints, queue, dbg, reader, watchdog, thr, client, past>>

\* setBreakpoints stores the lines of the file and then applies them.
SetBreakpoints(p, lines) ==
    /\ Message
    /\ breakpoints' = [q \in DOMAIN breakpoints \cup {p} |->
                          IF q = p THEN lines ELSE breakpoints[q]]
    /\ reader' = [at |-> "apply", apply |-> <<p, lines>>]
    /\ past' = [past EXCEPT !.silence = "no",
                            !.overlap = @ \/ At("sync") \cup At("clearing") # {}]
    /\ UNCHANGED <<adapter, queue, dbg, watchdog, thr>>

\* The start is left to configurationDone.
BugStoreProgram == /\ reader.at = "launch"
                   /\ adapter' = [adapter EXCEPT !.program = TRUE]
                   /\ reader' = Ready
                   /\ UNCHANGED <<breakpoints, queue, dbg, watchdog, thr, client, past>>

\* launch stores that it came before it stores the program.
Launch == /\ Message /\ Talk
          /\ adapter' = [adapter EXCEPT !.launch = TRUE]
          /\ reader' = [reader EXCEPT !.at = "launch"]
          /\ UNCHANGED <<breakpoints, queue, dbg, watchdog, thr>>

StoreProgram == /\ reader.at = "launch"
                /\ adapter' = [adapter EXCEPT !.program = TRUE]
                /\ reader' = [reader EXCEPT !.at = "check"]
                /\ UNCHANGED <<breakpoints, queue, dbg, watchdog, thr, client, past>>

ConfigurationDone == /\ Message /\ Talk
                     /\ adapter' = [adapter EXCEPT !.configured = TRUE]
                     /\ reader' = [reader EXCEPT !.at = "check"]
                     /\ UNCHANGED <<breakpoints, queue, dbg, watchdog, thr>>

\* continue, next, stepIn and stepOut put a command into the queue.
Resume(command) == /\ reader.at = "ready" /\ Talk
                   /\ client.messages < MaxMessages /\ client.told
                   /\ client' = [messages |-> client.messages + 1, told |-> FALSE]
                   /\ queue' = Append(queue, command)
                   /\ UNCHANGED <<adapter, breakpoints, dbg, reader, watchdog, thr>>

\* pause makes the current debugger, if there is one, stop at the next statement.
Pause == /\ Message /\ Talk
         /\ dbg' = [r \in Runs |-> [dbg[r] EXCEPT !.force = @ \/ r = adapter.debugger]]
         /\ UNCHANGED <<adapter, breakpoints, queue, reader, watchdog, thr>>

Running == adapter.thread # 0 /\ Live(Program(adapter.thread))

\* disconnect lets a live program go on, and waits up to a second for its end.
Disconnect == /\ Message /\ Talk
              /\ queue' = IF Running THEN Append(queue, "continue") ELSE queue
              /\ reader' = [reader EXCEPT !.at = "leave"]
              /\ UNCHANGED <<adapter, breakpoints, dbg, watchdog, thr>>

\* After that the process of the adapter ends.  (It also ends when the client
\* hangs up, which is as if nothing happened any more.)
ShutDown == /\ reader.at = "leave"
            /\ reader' = [reader EXCEPT !.at = "gone"]
            /\ UNCHANGED <<adapter, breakpoints, queue, dbg, watchdog, thr, client, past>>

-----------------------------------------------------------------------------
\* The watchdog warns once.  Of the silence after a launch it warns by completing
\* the configuration in the client's stead.
Warn == /\ watchdog = "watch"
        /\ ~adapter.warned /\ ~adapter.configured
        /\ ~adapter.initialized \/ ~adapter.launch
        /\ adapter' = [adapter EXCEPT !.warned = TRUE]
        /\ UNCHANGED <<breakpoints, queue, dbg, reader, watchdog, thr, client, past>>

ForceStart == /\ watchdog = "watch"
              /\ ~adapter.warned /\ ~adapter.configured
              /\ adapter.initialized /\ adapter.launch
              /\ adapter' = [adapter EXCEPT !.configured = TRUE]
              /\ watchdog' = "check"
              /\ UNCHANGED <<breakpoints, queue, dbg, reader, thr, client, past>>

\* (No more runs than Runs are started.)
CanStart == /\ ~Running /\ adapter.launch /\ adapter.configured /\ adapter.program
            /\ adapter.thread + 1 \in Runs

\* _start_program_thread, as the reader and the watchdog call it: the check, ...
ReaderChecks == /\ reader.at = "check"
                /\ reader' = [reader EXCEPT !.at = IF CanStart THEN "start" ELSE "ready"]
                /\ UNCHANGED <<adapter, breakpoints, queue, dbg, watchdog, thr, client, past>>

WatchdogChecks == /\ watchdog = "check"
                  /\ watchdog' = IF CanStart THEN "start" ELSE "gone"
                  /\ UNCHANGED <<adapter, breakpoints, queue, dbg, reader, thr, client, past>>

\* ... a new thread, which takes the place of the last one, ...
StoreThread == /\ adapter.thread + 1 \in Runs
               /\ adapter' = [adapter EXCEPT !.thread = @ + 1]
               /\ UNCHANGED <<breakpoints, queue, dbg, thr, client, past>>

ReaderStores == /\ reader.at = "start"
                /\ StoreThread
                /\ reader' = [reader EXCEPT !.at = "stored"]
                /\ UNCHANGED watchdog

WatchdogStores == /\ watchdog = "start"
                  /\ StoreThread
                  /\ watchdog' = "stored"
                  /\ UNCHANGED reader

\* ... and the start of the thread that is stored by then, be it its own or the
\* other's.  A thread starts once: whoever comes second gets an error, which ends
\* the watchdog, and the adapter when it is the reader's.
StartRun == LET t == Program(adapter.thread)
            IN  /\ thr[t].at = "off"
                /\ thr' = [thr EXCEPT ![t].at = "read"]
                /\ past' = [past EXCEPT !.overlap = @ \/ \E u \in Threads : Live(u)]
                /\ UNCHANGED <<adapter, breakpoints, queue, dbg, client>>

StartFails == /\ thr[Program(adapter.thread)].at # "off"
              /\ UNCHANGED <<adapter, breakpoints, queue, dbg, thr, client, past>>

ReaderStarts == /\ reader.at = "stored"
                /\ \/ StartRun /\ reader' = Ready
                   \/ StartFails /\ reader' = [reader EXCEPT !.at = "gone"]
                /\ UNCHANGED watchdog

WatchdogStarts == /\ watchdog = "stored"
                  /\ StartRun \/ StartFails
                  /\ watchdog' = "gone"
                  /\ UNCHANGED reader

-----------------------------------------------------------------------------
\* _run_program: a file that cannot be read ends the run; else its debugger is
\* made the current one ...
ReadProgram(t) ==
    /\ thr[t].at = "read"
    /\ \/ thr' = [thr EXCEPT ![t].at = "ended"] /\ UNCHANGED adapter
       \/ /\ thr' = [thr EXCEPT ![t].at = "made"]
          /\ adapter' = [adapter EXCEPT !.debugger = t[1]]
    /\ UNCHANGED <<breakpoints, queue, dbg, reader, watchdog, client, past>>

\* ... and is given the breakpoints of one file after the other, in a loop over a
\* dictionary, which fails when a file is added to it meanwhile.
SyncAll(t) ==
    /\ thr[t].at = "made"
    /\ thr' = [thr EXCEPT ![t].at = "sync", ![t].left = DOMAIN breakpoints,
                          ![t].size = Cardinality(DOMAIN breakpoints)]
    /\ UNCHANGED <<adapter, breakpoints, queue, dbg, reader, watchdog, client, past>>

\* The debugger learns of the breakpoints only when they are set.
BugSyncOne(t) ==
    /\ thr[t].at = "sync"
    /\ thr' = [thr EXCEPT ![t].at = "run", ![t].left = {}, ![t].size = 0]
    /\ UNCHANGED <<adapter, breakpoints, queue, dbg, reader, watchdog, client, past>>

SyncOne(t) ==
    LET grown == Cardinality(DOMAIN breakpoints) # thr[t].size
        done(there) == [thr EXCEPT ![t].at = there, ![t].left = {}, ![t].size = 0]
    IN  /\ thr[t].at = "sync" /\ thr[t].apply = Nothing
        /\ \/ grown /\ thr' = done("dead")
           \/ ~grown /\ thr[t].left = {} /\ thr' = done("run")
           \/ /\ ~grown
              /\ \E p \in thr[t].left :
                    thr' = [thr EXCEPT ![t].left = @ \ {p},
                                       ![t].apply = <<p, breakpoints[p]>>]
        /\ UNCHANGED <<adapter, breakpoints, queue, dbg, reader, watchdog, client, past>>

\* _apply_breakpoints, to the debugger that is the current one by now: the lines of
\* a file take the place of all lines of its namespace.
Applied(update) == [r \in Runs |-> IF r # adapter.debugger THEN dbg[r]
                                   ELSE [dbg[r] EXCEPT !.bps[NamespaceOf[update[1]]] = update[2]]]

ReaderApplies == /\ reader.at = "apply"
                 /\ dbg' = Applied(reader.apply)
                 /\ reader' = Ready
                 /\ UNCHANGED <<adapter, breakpoints, queue, watchdog, thr, client, past>>

ThreadApplies(t) == /\ thr[t].apply # Nothing
                    /\ dbg' = Applied(thr[t].apply)
                    /\ thr' = [thr EXCEPT ![t].apply = Nothing]
                    /\ UNCHANGED <<adapter, breakpoints, queue, reader, watchdog, client, past>>

-----------------------------------------------------------------------------
\* should_pause, for a statement at a line of a namespace and a depth.
ShouldPause(d, loc, depth) == \/ d.force
                              \/ loc[2] \in d.bps[loc[1]]
                              \/ depth <= d.step /\ loc # d.last

\* A statement that does not stop changes nothing here.
Statement(t, loc, depth) ==
    /\ thr[t].at = "run"
    /\ ShouldPause(dbg[t[1]], loc, depth)
    /\ thr' = [thr EXCEPT ![t].at = "pausing", ![t].stop = <<loc, depth>>]
    /\ UNCHANGED <<adapter, breakpoints, queue, dbg, reader, watchdog, client, past>>

\* handle_pause, up to the stopped event of on_pause.  (The snapshot it takes, from
\* which evaluate, stackTrace, scopes and variables are answered, is left out.)
HandlePause(t) ==
    /\ thr[t].at = "pausing"
    /\ dbg' = [dbg EXCEPT ![t[1]].last = thr[t].stop[1], ![t[1]].force = FALSE]
    /\ client' = [client EXCEPT !.told = TRUE]
    /\ thr' = [thr EXCEPT ![t].at = "waiting"]
    /\ UNCHANGED <<adapter, breakpoints, queue, reader, watchdog, past>>

\* The depth down to which a command stops again; step_in stops at any depth.
StepRequest(command, depth) ==
    CASE command = "continue"  -> NoStep
      [] command = "step_in"   -> MaxDepth
      [] command = "step_over" -> depth
      [] command = "step_out"  -> IF depth = 0 THEN 0 ELSE depth - 1

GoOn(t, command) ==
    /\ dbg' = [dbg EXCEPT ![t[1]].step = StepRequest(command, thr[t].stop[2])]
    /\ thr' = [thr EXCEPT ![t].at = "run", ![t].stop = Nothing]

\* The command is read and left in the queue.
BugTakeCommand(t) == /\ thr[t].at = "waiting" /\ queue # <<>>
                     /\ GoOn(t, Head(queue))
                     /\ UNCHANGED <<adapter, breakpoints, queue, reader, watchdog, client, past>>

\* _wait_for_command: the oldest command is for whichever thread takes it.
TakeCommand(t) == /\ thr[t].at = "waiting" /\ queue # <<>>
                  /\ GoOn(t, Head(queue))
                  /\ queue' = Tail(queue)
                  /\ UNCHANGED <<adapter, breakpoints, reader, watchdog, client, past>>

\* No command came in time: the breakpoints of every file are cleared ...
TimeOut(t) ==
    LET apart == past.overlap \/ reader.at = "apply"
    IN  /\ thr[t].at = "waiting" /\ queue = <<>>
        /\ thr' = [thr EXCEPT ![t].at = "clearing", ![t].left = DOMAIN breakpoints]
        /\ past' = [past EXCEPT !.expired = TRUE, !.overlap = apart,
                                !.silence = IF apart THEN "no" ELSE "clearing"]
        /\ UNCHANGED <<adapter, breakpoints, queue, dbg, reader, watchdog, client>>

\* What is stored is cleared, and the debugger is not told.
BugClearOne(t) ==
    /\ thr[t].at = "clearing"
    /\ \E p \in thr[t].left : /\ breakpoints' = [breakpoints EXCEPT ![p] = {}]
                              /\ thr' = [thr EXCEPT ![t].left = @ \ {p}]
    /\ UNCHANGED <<adapter, queue, dbg, reader, watchdog, client, past>>

ClearOne(t) ==
    /\ thr[t].at = "clearing" /\ thr[t].apply = Nothing
    /\ \E p \in thr[t].left :
          /\ breakpoints' = [breakpoints EXCEPT ![p] = {}]
          /\ thr' = [thr EXCEPT ![t].left = @ \ {p}, ![t].apply = <<p, {}>>]
    /\ UNCHANGED <<adapter, queue, dbg, reader, watchdog, client, past>>

\* ... and the thread goes on.
Cleared(t) ==
    /\ thr[t].at = "clearing" /\ thr[t].apply = Nothing /\ thr[t].left = {}
    /\ GoOn(t, "continue")
    /\ past' = [past EXCEPT !.silence =
                    IF @ = "clearing" /\ ~past.overlap /\ ~dbg[t[1]].force THEN "calm" ELSE @]
    /\ UNCHANGED <<adapter, breakpoints, queue, reader, watchdog, client>>

\* A run spawns a task; a thread ends, by an error or not.
SpawnTask(t) == /\ t[2] # Main /\ thr[t].at = "off"
                /\ \E u \in At("run") : u[1] = t[1]
                /\ thr' = [thr EXCEPT ![t].at = "run"]
                /\ UNCHANGED <<adapter, breakpoints, queue, dbg, reader, watchdog, client, past>>

EndThread(t) == /\ thr[t].at = "run"
                /\ thr' = [thr EXCEPT ![t].at = "ended"]
                /\ UNCHANGED <<adapter, breakpoints, queue, dbg, reader, watchdog, client, past>>

-----------------------------------------------------------------------------
Request == \/ Initialize \/ Launch \/ ConfigurationDone
           \/ \E p \in Paths, lines \in SUBSET Lines : SetBreakpoints(p, lines)
           \/ \E command \in Commands : Resume(command)
           \/ Pause \/ Disconnect
\* What goes on while the process of the adapter exists.
Up == reader.at # "gone"
ReaderStep == StoreProgram \/ ReaderChecks \/ ReaderStores \/ ReaderStarts \/ ReaderApplies
WatchdogStep == Up /\ (Warn \/ ForceStart \/ WatchdogChecks \/ WatchdogStores \/ WatchdogStarts)
StopStep(t) == Up /\ \/ HandlePause(t) \/ TakeCommand(t) \/ TimeOut(t)
                     \/ ClearOne(t) \/ Cleared(t) \/ ThreadApplies(t)
RunStep(t) == Up /\ \/ ReadProgram(t) \/ SyncAll(t) \/ SyncOne(t)
                    \/ \E loc \in Places, depth \in 0..MaxDepth :
                          Statement(t, loc, depth)
                    \/ SpawnTask(t) \/ EndThread(t)

Next == \/ Request \/ ReaderStep \/ ShutDown \/ WatchdogStep
        \/ \E t \in Threads : StopStep(t) \/ RunStep(t)

\* Threads are scheduled, and a wait with a timeout ends.  The client owes no
\* request, and the program no statement.
Spec == /\ Init /\ [][Next]_vars
        /\ WF_vars(ReaderStep) /\ WF_vars(WatchdogStep)
        /\ \A t \in Threads : WF_vars(StopStep(t))

-----------------------------------------------------------------------------
\* No command is left over for a later stop, which it would end as soon as it
\* begins: there are no more commands, queued or still to come for a stop the
\* client was told of, than threads that wait for one.  But disconnect adds one
\* for a program that may not be stopped, and a timeout, of which the adapter
\* sends no event, leaves the client believing in the stop.
CommandsMatchStops ==
    past.expired \/ reader.at \in {"leave", "gone"}
      \/ Len(queue) + (IF client.told THEN 1 ELSE 0) <= Cardinality(At("waiting"))

\* The files of a namespace that the client has set breakpoints in.
FilesOf(n) == {p \in DOMAIN breakpoints : NamespaceOf[p] = n}

\* The current debugger stops at the lines the client has set: in a namespace, at
\* those of one of its files, and nowhere if it has none.  So a file that shares
\* its namespace with no other has its own lines, whether they were set before,
\* while or after the debugger was made, in this run or an earlier one, or cleared
\* by a timeout: whenever nobody is about to pass them on, and if none were set in
\* the middle of somebody's loop over them and no run was beside another.  Without
\* that, no thread dies without a terminated event.
BreakpointsAgree ==
    ~past.overlap =>
        /\ At("dead") = {}
        /\ reader.at # "apply" /\ At("made") \cup At("sync") \cup At("clearing") = {}
             => \A r \in Runs : r = adapter.debugger =>
                   \A n \in Namespaces :
                       IF FilesOf(n) = {} THEN dbg[r].bps[n] = {}
                       ELSE \E p \in FilesOf(n) : dbg[r].bps[n] = breakpoints[p]

\* A program that goes on after a timeout does not stop again before the client
\* says something, unless it had asked for a pause: what
\* _clear_breakpoints_after_timeout is for.
TimeoutLetsRun ==
    [][past.silence = "calm" =>
         \A t \in Threads : thr'[t].at = "pausing" => thr[t].at = "pausing"]_vars

\* A launch with its configuration done has started the program, whichever of
\* the two came last and whether the client or the watchdog completed it, once
\* neither of them is about to start it, and the thread that is stored is one that
\* was started, also after both have stored one.
ConfiguredStarts ==
    adapter.launch /\ adapter.configured /\ reader.at = "ready"
      /\ watchdog \in {"watch", "gone"}
      => adapter.thread # 0 /\ thr[Program(adapter.thread)].at # "off"

=============================================================================
