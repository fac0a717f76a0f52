------------------------- MODULE DebugAdapterProofs -------------------------
(***************************************************************************)
(* Proofs about the debugging session.                                     *)
(*                                                                         *)
(* The inductive invariant IInv says what everybody who shares the adapter *)
(* may rely on: that the start of a launch is pending until a run was      *)
(* stored (LaunchStored, StartPending), and until it was started           *)
(* (StoredPending); that nobody touches the debugger of a run that has not *)
(* begun (Untouched); that what is on the way to a debugger is an update   *)
(* of a stored file (Loops); that in a session without overlaps the        *)
(* current debugger has what is stored of some file of each namespace, but *)
(* for what is still on the way (Apart); and that a timeout at which       *)
(* nothing overlapped leaves nobody a reason to stop while the client is   *)
(* silent (Silent, Calm).                                                  *)
(*                                                                         *)
(* Each part is shown to be kept in a lemma of its own, which looks at the *)
(* steps as Steps groups them: those that only concern the flags of the    *)
(* session (Aside), the reader's that concern breakpoints, the start of a  *)
(* run, and a step of one thread, of which Thread says what it changes.    *)
(***************************************************************************)
EXTENDS DebugAdapter, FiniteSetTheorems, TLAPS

-----------------------------------------------------------------------------
\* The inductive invariant.

Updates == Paths \X SUBSET Lines
Stops == Places \X (0..MaxDepth)
ReaderPlaces == {"ready", "apply", "launch", "check", "start", "stored", "leave", "gone"}
WatchdogPlaces == {"watch", "check", "start", "stored", "gone"}
ThreadPlaces == {"off", "read", "made", "sync", "run", "pausing", "waiting", "clearing",
                 "ended", "dead"}
Flags == [initialized : BOOLEAN, launch : BOOLEAN, program : BOOLEAN, configured : BOOLEAN,
          warned : BOOLEAN, debugger : Runs \cup {0}, thread : Runs \cup {0}]
Debuggers == [bps : [Namespaces -> SUBSET Lines], force : BOOLEAN, step : Int,
              last : Places \cup {Nothing}]
ThreadStates(files) == [at : ThreadPlaces, left : SUBSET files, size : Nat,
                        apply : Updates \cup {Nothing}, stop : Stops \cup {Nothing}]

\* The types, that a stopped thread knows its stop, and that who has stored a
\* thread has stored one.
Types ==
    /\ adapter \in Flags
    /\ breakpoints \in [DOMAIN breakpoints -> SUBSET Lines]
    /\ DOMAIN breakpoints \subseteq Paths /\ IsFiniteSet(DOMAIN breakpoints)
    /\ queue \in Seq(Commands)
    /\ dbg \in [Runs -> Debuggers]
    /\ reader \in [at : ReaderPlaces, apply : Updates \cup {Nothing}]
    /\ reader.at = "apply" => reader.apply \in Updates
    /\ watchdog \in WatchdogPlaces
    /\ reader.at = "stored" \/ watchdog = "stored" => adapter.thread # 0
    /\ thr \in [Threads -> ThreadStates(DOMAIN breakpoints)]
    /\ \A t \in Threads : thr[t].at \in {"pausing", "waiting", "clearing"} => thr[t].stop \in Stops
    /\ client \in [messages : Nat, told : BOOLEAN]
    /\ past \in [expired : BOOLEAN, overlap : BOOLEAN, silence : {"no", "clearing", "calm"}]

\* A launch that came has its program stored, or the reader is about to store it.
LaunchStored == adapter.launch => adapter.program \/ reader.at = "launch"

\* As long as no thread was stored for a completed launch, somebody is about to.
StartPending ==
    adapter.launch /\ adapter.configured /\ adapter.thread = 0 =>
        \/ reader.at \in {"launch", "check", "start", "leave", "gone"}
        \/ watchdog \in {"check", "start"}

\* As long as the thread that is stored was not started, somebody is about to.
Begun(run) == thr[Program(run)].at # "off"
StoredPending == adapter.thread # 0 /\ ~Begun(adapter.thread) =>
                    reader.at = "stored" \/ watchdog = "stored"

\* A debugger that does not stop the program.
Quiet(d) == (\A n \in Namespaces : d.bps[n] = {}) /\ ~d.force /\ d.step = NoStep

\* A run begins with its program, and nobody touches the debugger of one before.
Untouched ==
    /\ \A r \in Runs : r = adapter.debugger => Begun(r)
    /\ \A t \in Threads : thr[t].at # "off" => Begun(t[1])
    /\ \A r \in Runs : ~Begun(r) => Quiet(dbg[r])

\* What is on the way to a debugger: updates of files that have been stored, in a
\* loop over them; a loop after a timeout only clears.
Loops ==
    /\ reader.at = "apply" => reader.apply[1] \in DOMAIN breakpoints
    /\ \A t \in Threads : thr[t].apply # Nothing =>
          /\ thr[t].at \in {"sync", "clearing"}
          /\ thr[t].apply[1] \in DOMAIN breakpoints
          /\ thr[t].at = "clearing" => thr[t].apply[2] = {}
    /\ \A r \in Runs, n \in Namespaces : dbg[r].bps[n] # {} => FilesOf(n) # {}

\* The invariants of a session without overlaps.  A program thread is alone until
\* it runs, the threads that run have the current debugger, ...
OneRun ==
    /\ \A t, u \in Threads : thr[t].at \in {"read", "made", "sync"} /\ Live(u) => u = t
    /\ \A t \in Threads : Live(t) => thr[t].at = "read" \/ t[1] = adapter.debugger
    /\ \A t \in Threads : thr[t].at # "dead"
    /\ reader.at = "apply" => \A t \in Threads : thr[t].at # "clearing"
    /\ \A t \in Threads : thr[t].at = "sync" => thr[t].size = Cardinality(DOMAIN breakpoints)

\* ... what is on the way is what is stored, ...
UpdatesRight ==
    /\ reader.at = "apply" => reader.apply[2] = breakpoints[reader.apply[1]]
    /\ \A t \in Threads : thr[t].apply # Nothing => thr[t].apply[2] = breakpoints[thr[t].apply[1]]

\* ... what the current debugger has is what is stored of a file, or one is about
\* to be passed on, ...
OnItsWay(t, p) == \/ thr[t].at = "made"
                  \/ thr[t].at = "sync" /\ p \in thr[t].left
                  \/ thr[t].apply # Nothing /\ thr[t].apply[1] = p

Pending(p) == \/ reader.at = "apply" /\ reader.apply[1] = p
              \/ \E t \in Threads : OnItsWay(t, p)

PassedOn(p, lines) == lines = breakpoints[p] \/ Pending(p)

Agree == \A r \in Runs, n \in Namespaces :
            r = adapter.debugger /\ FilesOf(n) # {} =>
               \E p \in FilesOf(n) : PassedOn(p, dbg[r].bps[n])

\* ... and a thread that clears has cleared the files it has come past.
Clear(p) == /\ breakpoints[p] = {}
            /\ \A r \in Runs : r = adapter.debugger => dbg[r].bps[NamespaceOf[p]] = {}

ClearedSoFar ==
    \A t \in Threads : thr[t].at = "clearing" =>
        \A p \in DOMAIN breakpoints : \/ p \in thr[t].left
                                      \/ thr[t].apply # Nothing /\ thr[t].apply[1] = p
                                      \/ Clear(p)

Orderly == OneRun /\ UpdatesRight /\ Agree /\ ClearedSoFar
Apart == ~past.overlap => Orderly

\* While the client is silent there are no commands and no breakpoints to set, ...
Silent == past.silence # "no" => queue = <<>> /\ reader.at # "apply"

\* ... and after the timeout no reason to stop, neither stored nor in a debugger.
Calm == past.silence = "calm" =>
    /\ \A p \in DOMAIN breakpoints : breakpoints[p] = {}
    /\ \A t \in Threads : thr[t].apply # Nothing => thr[t].apply[2] = {}
    /\ \A t \in Threads : Live(t) => Quiet(dbg[t[1]])

IInv == Types /\ LaunchStored /\ StartPending /\ StoredPending /\ Untouched /\ Loops /\ Apart /\ Silent /\ Calm

-----------------------------------------------------------------------------
\* What a step leaves of the other threads, and what it makes of its own.
Thread(t, at, left, apply) == /\ \A u \in Threads \ {t} : thr'[u] = thr[u]
                              /\ thr'[t].at = at /\ thr'[t].left = left /\ thr'[t].apply = apply

ThreadsTyped == /\ thr' \in [Threads -> ThreadStates(DOMAIN breakpoints')]
                /\ \A t \in Threads :
                      thr'[t].at \in {"pausing", "waiting", "clearing"} => thr'[t].stop \in Stops

\* The runs are numbers, and there is a first one.
LEMMA RunNumbers == Runs \subseteq Nat \ {0} /\ 1 \in Runs
  BY DebugAssumption

\* A thread's new record, well typed, is all that changes.
LEMMA Retyped ==
    ASSUME Types, NEW t \in Threads, NEW r \in ThreadStates(DOMAIN breakpoints),
           r.at \in {"pausing", "waiting", "clearing"} => r.stop \in Stops,
           thr' = [thr EXCEPT ![t] = r], DOMAIN breakpoints' = DOMAIN breakpoints
    PROVE  Thread(t, r.at, r.left, r.apply) /\ thr'[t].size = r.size /\ ThreadsTyped
  BY DEF Types, Thread, ThreadsTyped

LEMMA OneThread ==
    ASSUME Types, NEW t \in Threads
    PROVE  /\ thr[t] \in ThreadStates(DOMAIN breakpoints)
           /\ thr[t].at \in {"pausing", "waiting", "clearing"} => thr[t].stop \in Stops
  BY DEF Types

LEMMA StartRunThread ==
    ASSUME Types, StartRun, adapter.thread # 0
    PROVE  LET t == Program(adapter.thread)
           IN  /\ t \in Threads /\ t[1] = adapter.thread /\ thr[t].at = "off"
               /\ Thread(t, "read", thr[t].left, thr[t].apply)
               /\ ThreadsTyped
<1>1. Program(adapter.thread) \in Threads /\ Program(adapter.thread)[1] = adapter.thread
  BY DebugAssumption DEF Types, Flags, Program
<1>2. /\ thr[Program(adapter.thread)].at = "off" /\ breakpoints' = breakpoints
      /\ thr' = [thr EXCEPT ![Program(adapter.thread)].at = "read"]
  BY DEF StartRun
<1>3. ASSUME NEW t \in Threads, thr' = [thr EXCEPT ![t].at = "read"]
      PROVE  Thread(t, "read", thr[t].left, thr[t].apply) /\ ThreadsTyped
  <2> DEFINE new == [thr[t] EXCEPT !.at = "read"]
  <2>1. thr' = [thr EXCEPT ![t] = new]
    BY <1>3
  <2>2. new \in ThreadStates(DOMAIN breakpoints) /\ new.at = "read" /\ new.left = thr[t].left
          /\ new.apply = thr[t].apply
    BY OneThread DEF ThreadStates, ThreadPlaces
  <2> HIDE DEF new
  <2> QED
    BY <1>2, <2>1, <2>2, Retyped
<1> QED
  BY <1>1, <1>2, <1>3

LEMMA ReadProgramThread ==
    ASSUME Types, NEW t \in Threads, ReadProgram(t)
    PROVE  /\ \E at \in {"ended", "made"} : Thread(t, at, thr[t].left, thr[t].apply)
           /\ ThreadsTyped
<1>1. PICK at \in {"ended", "made"} : thr' = [thr EXCEPT ![t].at = at]
  BY DEF ReadProgram
<1> DEFINE new == [thr[t] EXCEPT !.at = at]
<1>2. thr' = [thr EXCEPT ![t] = new] /\ breakpoints' = breakpoints
  BY <1>1 DEF ReadProgram
<1>3. new \in ThreadStates(DOMAIN breakpoints) /\ new.at = at /\ new.left = thr[t].left
        /\ new.apply = thr[t].apply
  BY OneThread DEF ThreadStates, ThreadPlaces
<1> HIDE DEF new
<1> QED
  BY <1>2, <1>3, Retyped

LEMMA SyncAllThread ==
    ASSUME Types, NEW t \in Threads, SyncAll(t)
    PROVE  /\ Thread(t, "sync", DOMAIN breakpoints, thr[t].apply)
           /\ thr'[t].size = Cardinality(DOMAIN breakpoints)
           /\ ThreadsTyped
<1> DEFINE D == DOMAIN breakpoints
           n == Cardinality(D)
           new == [thr[t] EXCEPT !.at = "sync", !.left = D, !.size = n]
<1>1. n \in Nat /\ D \in SUBSET D
  BY FS_CardinalityType DEF Types
<1>2. thr' = [thr EXCEPT ![t] = new] /\ breakpoints' = breakpoints
  BY DEF SyncAll
<1> HIDE DEF n
<1>3. new \in ThreadStates(D) /\ new.at = "sync" /\ new.left = D /\ new.size = n
        /\ new.apply = thr[t].apply
  BY <1>1, OneThread DEF ThreadStates, ThreadPlaces
<1> HIDE DEF new
<1>4. Thread(t, "sync", D, thr[t].apply) /\ thr'[t].size = n /\ ThreadsTyped
  BY <1>2, <1>3, Retyped
<1> QED
  BY <1>4 DEF n

LEMMA SyncOneThread ==
    ASSUME Types, NEW t \in Threads, SyncOne(t)
    PROVE  /\ \/ /\ Cardinality(DOMAIN breakpoints) # thr[t].size
                 /\ Thread(t, "dead", {}, thr[t].apply)
              \/ thr[t].left = {} /\ Thread(t, "run", {}, thr[t].apply)
              \/ \E p \in thr[t].left :
                    /\ Thread(t, "sync", thr[t].left \ {p}, <<p, breakpoints[p]>>)
                    /\ thr'[t].size = thr[t].size
           /\ ThreadsTyped
<1>1. breakpoints' = breakpoints /\ thr[t].at = "sync"
  BY DEF SyncOne
<1>2. ASSUME NEW at \in {"dead", "run"},
             thr' = [thr EXCEPT ![t].at = at, ![t].left = {}, ![t].size = 0]
      PROVE  Thread(t, at, {}, thr[t].apply) /\ ThreadsTyped
  <2> DEFINE new == [thr[t] EXCEPT !.at = at, !.left = {}, !.size = 0]
  <2>1. thr' = [thr EXCEPT ![t] = new]
    BY <1>2
  <2>2. new \in ThreadStates(DOMAIN breakpoints) /\ new.at = at /\ new.left = {}
          /\ new.apply = thr[t].apply
    BY OneThread DEF ThreadStates, ThreadPlaces
  <2> HIDE DEF new
  <2> QED
    BY <1>1, <2>1, <2>2, Retyped
<1>3. ASSUME NEW p \in thr[t].left,
             thr' = [thr EXCEPT ![t].left = @ \ {p}, ![t].apply = <<p, breakpoints[p]>>]
      PROVE  /\ Thread(t, "sync", thr[t].left \ {p}, <<p, breakpoints[p]>>)
             /\ thr'[t].size = thr[t].size
             /\ ThreadsTyped
  <2> DEFINE update == <<p, breakpoints[p]>>
             rest == thr[t].left \ {p}
             new == [thr[t] EXCEPT !.left = rest, !.apply = update]
  <2>1. rest \in SUBSET DOMAIN breakpoints /\ p \in DOMAIN breakpoints
    BY OneThread DEF ThreadStates
  <2>2. update \in Updates
    BY <2>1 DEF Types, Updates
  <2>3. thr' = [thr EXCEPT ![t] = new]
    BY <1>3
  <2> HIDE DEF update, rest
  <2>4. new \in ThreadStates(DOMAIN breakpoints) /\ new.at = "sync" /\ new.left = rest
          /\ new.apply = update /\ new.size = thr[t].size
    BY <1>1, <2>1, <2>2, OneThread DEF ThreadStates
  <2> HIDE DEF new
  <2>5. Thread(t, "sync", rest, update) /\ thr'[t].size = thr[t].size /\ ThreadsTyped
    BY <1>1, <2>3, <2>4, Retyped
  <2> QED
    BY <2>5 DEF update, rest
<1>4. \/ /\ Cardinality(DOMAIN breakpoints) # thr[t].size
         /\ thr' = [thr EXCEPT ![t].at = "dead", ![t].left = {}, ![t].size = 0]
      \/ thr[t].left = {} /\ thr' = [thr EXCEPT ![t].at = "run", ![t].left = {}, ![t].size = 0]
      \/ \E p \in thr[t].left :
            thr' = [thr EXCEPT ![t].left = @ \ {p}, ![t].apply = <<p, breakpoints[p]>>]
  BY DEF SyncOne
<1> QED
  BY <1>2, <1>3, <1>4

LEMMA ThreadAppliesThread ==
    ASSUME Types, NEW t \in Threads, ThreadApplies(t)
    PROVE  /\ Thread(t, thr[t].at, thr[t].left, Nothing) /\ thr'[t].size = thr[t].size
           /\ ThreadsTyped
<1> DEFINE new == [thr[t] EXCEPT !.apply = Nothing]
<1>1. thr' = [thr EXCEPT ![t] = new] /\ breakpoints' = breakpoints
  BY DEF ThreadApplies
<1>2. new \in ThreadStates(DOMAIN breakpoints) /\ new.at = thr[t].at /\ new.left = thr[t].left
        /\ new.apply = Nothing /\ new.stop = thr[t].stop /\ new.size = thr[t].size
  BY OneThread DEF ThreadStates
<1> HIDE DEF new
<1> QED
  BY <1>1, <1>2, OneThread, Retyped

LEMMA StatementThread ==
    ASSUME Types, NEW t \in Threads, NEW loc \in Places, NEW depth \in 0..MaxDepth,
           Statement(t, loc, depth)
    PROVE  Thread(t, "pausing", thr[t].left, thr[t].apply) /\ ThreadsTyped
<1> DEFINE stop == <<loc, depth>>
           new == [thr[t] EXCEPT !.at = "pausing", !.stop = stop]
<1>1. stop \in Stops
  BY DEF Stops
<1>2. thr' = [thr EXCEPT ![t] = new] /\ breakpoints' = breakpoints
  BY DEF Statement
<1> HIDE DEF stop
<1>3. new \in ThreadStates(DOMAIN breakpoints) /\ new.at = "pausing" /\ new.left = thr[t].left
        /\ new.apply = thr[t].apply /\ new.stop = stop
  BY <1>1, OneThread DEF ThreadStates, ThreadPlaces
<1> HIDE DEF new
<1> QED
  BY <1>1, <1>2, <1>3, Retyped

LEMMA HandlePauseThread ==
    ASSUME Types, NEW t \in Threads, HandlePause(t)
    PROVE  Thread(t, "waiting", thr[t].left, thr[t].apply) /\ ThreadsTyped
<1> DEFINE new == [thr[t] EXCEPT !.at = "waiting"]
<1>1. thr' = [thr EXCEPT ![t] = new] /\ breakpoints' = breakpoints
  BY DEF HandlePause
<1>2. new \in ThreadStates(DOMAIN breakpoints) /\ new.at = "waiting" /\ new.left = thr[t].left
        /\ new.apply = thr[t].apply /\ new.stop = thr[t].stop
  BY OneThread DEF ThreadStates, ThreadPlaces
<1>3. new.stop \in Stops
  BY <1>2, OneThread DEF HandlePause
<1> HIDE DEF new
<1> QED
  BY <1>1, <1>2, <1>3, Retyped

LEMMA GoOnThread ==
    ASSUME Types, NEW t \in Threads, NEW command, GoOn(t, command),
           DOMAIN breakpoints' = DOMAIN breakpoints
    PROVE  Thread(t, "run", thr[t].left, thr[t].apply) /\ ThreadsTyped
<1> DEFINE new == [thr[t] EXCEPT !.at = "run", !.stop = Nothing]
<1>1. thr' = [thr EXCEPT ![t] = new]
  BY DEF GoOn
<1>2. new \in ThreadStates(DOMAIN breakpoints) /\ new.at = "run" /\ new.left = thr[t].left
        /\ new.apply = thr[t].apply
  BY OneThread DEF ThreadStates, ThreadPlaces
<1> HIDE DEF new
<1> QED
  BY <1>1, <1>2, Retyped

LEMMA TimeOutThread ==
    ASSUME Types, NEW t \in Threads, TimeOut(t)
    PROVE  Thread(t, "clearing", DOMAIN breakpoints, thr[t].apply) /\ ThreadsTyped
<1> DEFINE D == DOMAIN breakpoints
           new == [thr[t] EXCEPT !.at = "clearing", !.left = D]
<1>1. thr' = [thr EXCEPT ![t] = new] /\ breakpoints' = breakpoints
  BY DEF TimeOut
<1>2. new \in ThreadStates(D) /\ new.at = "clearing" /\ new.left = D
        /\ new.apply = thr[t].apply /\ new.stop = thr[t].stop
  BY OneThread DEF ThreadStates, ThreadPlaces
<1>3. thr[t].stop \in Stops
  BY OneThread DEF TimeOut
<1> HIDE DEF new
<1> QED
  BY <1>1, <1>2, <1>3, Retyped

LEMMA ClearOneThread ==
    ASSUME Types, NEW t \in Threads, ClearOne(t)
    PROVE  /\ \E p \in thr[t].left : /\ breakpoints' = [breakpoints EXCEPT ![p] = {}]
                                     /\ Thread(t, "clearing", thr[t].left \ {p}, <<p, {}>>)
           /\ ThreadsTyped
<1>1. PICK p \in thr[t].left : /\ breakpoints' = [breakpoints EXCEPT ![p] = {}]
                               /\ thr' = [thr EXCEPT ![t].left = @ \ {p}, ![t].apply = <<p, {}>>]
  BY DEF ClearOne
<1> DEFINE update == <<p, {}>>
           rest == thr[t].left \ {p}
           new == [thr[t] EXCEPT !.left = rest, !.apply = update]
<1>2. DOMAIN breakpoints' = DOMAIN breakpoints /\ thr[t].at = "clearing"
  BY <1>1 DEF ClearOne
<1>3. rest \in SUBSET DOMAIN breakpoints /\ p \in DOMAIN breakpoints
  BY OneThread DEF ThreadStates
<1>4. update \in Updates
  BY <1>3 DEF Types, Updates
<1>5. thr' = [thr EXCEPT ![t] = new]
  BY <1>1
<1> HIDE DEF update, rest
<1>6. new \in ThreadStates(DOMAIN breakpoints) /\ new.at = "clearing" /\ new.left = rest
        /\ new.apply = update /\ new.stop = thr[t].stop
  BY <1>2, <1>3, <1>4, OneThread DEF ThreadStates
<1>7. thr[t].stop \in Stops
  BY <1>2, OneThread
<1> HIDE DEF new
<1>8. Thread(t, "clearing", rest, update) /\ ThreadsTyped
  BY <1>2, <1>5, <1>6, <1>7, Retyped
<1> QED
  BY <1>1, <1>8 DEF update, rest

LEMMA SpawnTaskThread ==
    ASSUME Types, NEW t \in Threads, SpawnTask(t)
    PROVE  Thread(t, "run", thr[t].left, thr[t].apply) /\ ThreadsTyped
<1> DEFINE new == [thr[t] EXCEPT !.at = "run"]
<1>1. thr' = [thr EXCEPT ![t] = new] /\ breakpoints' = breakpoints
  BY DEF SpawnTask
<1>2. new \in ThreadStates(DOMAIN breakpoints) /\ new.at = "run" /\ new.left = thr[t].left
        /\ new.apply = thr[t].apply /\ new.stop = thr[t].stop
  BY OneThread DEF ThreadStates, ThreadPlaces
<1> HIDE DEF new
<1> QED
  BY <1>1, <1>2, Retyped

LEMMA EndThreadThread ==
    ASSUME Types, NEW t \in Threads, EndThread(t)
    PROVE  Thread(t, "ended", thr[t].left, thr[t].apply) /\ ThreadsTyped
<1> DEFINE new == [thr[t] EXCEPT !.at = "ended"]
<1>1. thr' = [thr EXCEPT ![t] = new] /\ breakpoints' = breakpoints
  BY DEF EndThread
<1>2. new \in ThreadStates(DOMAIN breakpoints) /\ new.at = "ended" /\ new.left = thr[t].left
        /\ new.apply = thr[t].apply /\ new.stop = thr[t].stop
  BY OneThread DEF ThreadStates, ThreadPlaces
<1> HIDE DEF new
<1> QED
  BY <1>1, <1>2, Retyped
-----------------------------------------------------------------------------
\* What a step makes of the debuggers.

LEMMA AppliedDebuggers ==
    ASSUME Types, NEW u \in Updates, dbg' = Applied(u)
    PROVE  /\ dbg' \in [Runs -> Debuggers]
           /\ \A r \in Runs : r # adapter.debugger => dbg'[r] = dbg[r]
           /\ \A r \in Runs :
                 /\ dbg'[r].force = dbg[r].force /\ dbg'[r].step = dbg[r].step
                 /\ \A n \in Namespaces : n # NamespaceOf[u[1]] => dbg'[r].bps[n] = dbg[r].bps[n]
                 /\ r = adapter.debugger => dbg'[r].bps[NamespaceOf[u[1]]] = u[2]
<1>1. ASSUME NEW r \in Runs PROVE
        /\ dbg'[r] \in Debuggers
        /\ r # adapter.debugger => dbg'[r] = dbg[r]
        /\ dbg'[r].force = dbg[r].force /\ dbg'[r].step = dbg[r].step
        /\ \A n \in Namespaces : n # NamespaceOf[u[1]] => dbg'[r].bps[n] = dbg[r].bps[n]
        /\ r = adapter.debugger => dbg'[r].bps[NamespaceOf[u[1]]] = u[2]
  <2> DEFINE name == NamespaceOf[u[1]]
  <2>1. dbg'[r] = IF r # adapter.debugger THEN dbg[r] ELSE [dbg[r] EXCEPT !.bps[name] = u[2]]
    BY DEF Applied
  <2>2. dbg[r] \in Debuggers /\ name \in Namespaces /\ u[2] \in SUBSET Lines
    BY DebugAssumption DEF Types, Updates
  <2> HIDE DEF name
  <2>3. /\ dbg'[r] \in Debuggers
        /\ r # adapter.debugger => dbg'[r] = dbg[r]
        /\ dbg'[r].force = dbg[r].force /\ dbg'[r].step = dbg[r].step
        /\ \A n \in Namespaces : n # name => dbg'[r].bps[n] = dbg[r].bps[n]
        /\ r = adapter.debugger => dbg'[r].bps[name] = u[2]
    BY <2>1, <2>2 DEF Debuggers
  <2> QED
    BY <2>3 DEF name
<1>2. DOMAIN dbg' = Runs /\ dbg' = [r \in Runs |-> dbg'[r]]
  BY DEF Applied
<1> QED
  BY <1>1, <1>2

LEMMA PauseDebuggers ==
    ASSUME Types, Pause
    PROVE  /\ dbg' \in [Runs -> Debuggers]
           /\ \A r \in Runs : dbg'[r].bps = dbg[r].bps /\ dbg'[r].step = dbg[r].step
           /\ \A r \in Runs : r # adapter.debugger => dbg'[r].force = dbg[r].force
<1>1. ASSUME NEW r \in Runs PROVE
        /\ dbg'[r] \in Debuggers /\ dbg'[r].bps = dbg[r].bps /\ dbg'[r].step = dbg[r].step
        /\ r # adapter.debugger => dbg'[r].force = dbg[r].force
  <2>1. dbg'[r] = [dbg[r] EXCEPT !.force = dbg[r].force \/ r = adapter.debugger]
    BY DEF Pause
  <2>2. dbg[r] \in Debuggers /\ (dbg[r].force \/ r = adapter.debugger) \in BOOLEAN
    BY DEF Types
  <2>3. dbg[r].force \in BOOLEAN
    BY <2>2 DEF Debuggers
  <2> QED
    BY <2>1, <2>2, <2>3 DEF Debuggers
<1>2. dbg' = [r \in Runs |-> dbg'[r]]
  BY DEF Pause
<1> QED
  BY <1>1, <1>2

LEMMA HandlePauseDebuggers ==
    ASSUME Types, NEW t \in Threads, HandlePause(t)
    PROVE  /\ dbg' \in [Runs -> Debuggers]
           /\ \A r \in Runs : /\ dbg'[r].bps = dbg[r].bps /\ dbg'[r].step = dbg[r].step
                              /\ dbg'[r].force => dbg[r].force
           /\ \A r \in Runs : r # t[1] => dbg'[r] = dbg[r]
<1> DEFINE d == t[1]
           place == thr[t].stop[1]
           new == [dbg[d] EXCEPT !.last = place, !.force = FALSE]
<1>1. d \in Runs /\ dbg[d] \in Debuggers
  BY DebugAssumption DEF Types
<1>2. place \in Places
  BY OneThread DEF HandlePause, Stops
<1>3. dbg' = [dbg EXCEPT ![d] = new]
  BY DEF HandlePause
<1> HIDE DEF place, d
<1>4. new \in Debuggers /\ new.bps = dbg[d].bps /\ new.step = dbg[d].step /\ new.force = FALSE
  BY <1>1, <1>2 DEF Debuggers
<1> HIDE DEF new
<1> QED
  BY <1>1, <1>3, <1>4 DEF Types, d

LEMMA StepRequestType == ASSUME NEW command \in Commands, NEW depth \in 0..MaxDepth
                         PROVE  StepRequest(command, depth) \in Int
  BY DebugAssumption DEF StepRequest, Commands, NoStep

LEMMA GoOnDebuggers ==
    ASSUME Types, NEW t \in Threads, NEW command \in Commands, GoOn(t, command),
           thr[t].at \in {"waiting", "clearing"}
    PROVE  /\ dbg' \in [Runs -> Debuggers]
           /\ \A r \in Runs : dbg'[r].bps = dbg[r].bps /\ dbg'[r].force = dbg[r].force
           /\ \A r \in Runs : r # t[1] => dbg'[r] = dbg[r]
           /\ command = "continue" => dbg'[t[1]].step = NoStep
<1> DEFINE d == t[1]
           step == StepRequest(command, thr[t].stop[2])
           new == [dbg[d] EXCEPT !.step = step]
<1>1. d \in Runs /\ dbg[d] \in Debuggers
  BY DebugAssumption DEF Types
<1>2. step \in Int
  <2>1. thr[t].stop \in Stops
    BY OneThread
  <2>2. thr[t].stop[2] \in 0..MaxDepth
    BY <2>1 DEF Stops
  <2> QED
    BY <2>2, StepRequestType
<1>3. command = "continue" => step = NoStep
  BY DEF StepRequest
<1>4. dbg' = [dbg EXCEPT ![d] = new]
  BY DEF GoOn
<1> HIDE DEF step
<1>5. new \in Debuggers /\ new.bps = dbg[d].bps /\ new.force = dbg[d].force /\ new.step = step
  BY <1>1, <1>2 DEF Debuggers
<1> HIDE DEF new
<1> QED
  BY <1>1, <1>3, <1>4, <1>5 DEF Types
-----------------------------------------------------------------------------
\* The types are kept.

\* For all steps: the threads and debuggers are typed ...
LEMMA ThreadsStep == Types /\ [Next]_vars => ThreadsTyped
<1> SUFFICES ASSUME Types, [Next]_vars PROVE ThreadsTyped
  OBVIOUS
<1>1. CASE UNCHANGED <<thr, breakpoints>>
  BY <1>1 DEF Types, ThreadsTyped
<1>2. ASSUME NEW p \in Paths, NEW lines \in SUBSET Lines, SetBreakpoints(p, lines) PROVE ThreadsTyped
  <2>1. thr' = thr /\ DOMAIN breakpoints \subseteq DOMAIN breakpoints'
    BY <1>2 DEF SetBreakpoints
  <2>2. \A C, D : C \subseteq D => ThreadStates(C) \subseteq ThreadStates(D)
    BY DEF ThreadStates
  <2> QED
    BY <2>1, <2>2 DEF Types, ThreadsTyped
<1>3. ASSUME ReaderStarts \/ WatchdogStarts PROVE ThreadsTyped
  <2>1. adapter.thread # 0 /\ (StartRun \/ UNCHANGED <<thr, breakpoints>>)
    BY <1>3 DEF ReaderStarts, WatchdogStarts, StartFails, Types
  <2> QED
    BY <1>1, <2>1, StartRunThread
<1>4. ASSUME NEW t \in Threads, TakeCommand(t) \/ Cleared(t) PROVE ThreadsTyped
  <2>1. GoOn(t, "continue") \/ GoOn(t, Head(queue))
    BY <1>4 DEF TakeCommand, Cleared
  <2>2. breakpoints' = breakpoints
    BY <1>4 DEF TakeCommand, Cleared
  <2> QED
    BY <2>1, <2>2, GoOnThread
<1>5. ASSUME NEW t \in Threads, StopStep(t) PROVE ThreadsTyped
  BY <1>4, <1>5, HandlePauseThread, TimeOutThread, ClearOneThread, ThreadAppliesThread DEF StopStep
<1>6. ASSUME NEW t \in Threads, RunStep(t) PROVE ThreadsTyped
  BY <1>6, ReadProgramThread, SyncAllThread, SyncOneThread, StatementThread, SpawnTaskThread,
     EndThreadThread DEF RunStep
<1>7. ASSUME Request PROVE ThreadsTyped
  BY <1>1, <1>2, <1>7 DEF Request, Initialize, Launch, ConfigurationDone, Resume, Pause, Disconnect
<1>8. ASSUME ReaderStep \/ ShutDown \/ WatchdogStep PROVE ThreadsTyped
  BY <1>1, <1>3, <1>8 DEF ReaderStep, ShutDown, WatchdogStep, StoreProgram, ReaderChecks, ReaderStores,
     ReaderApplies, Warn, ForceStart, WatchdogChecks, WatchdogStores, StoreThread
<1> QED
  BY <1>1, <1>5, <1>6, <1>7, <1>8 DEF Next, vars

LEMMA DebuggersStep == Types /\ [Next]_vars => dbg' \in [Runs -> Debuggers]
<1> SUFFICES ASSUME Types, [Next]_vars PROVE dbg' \in [Runs -> Debuggers]
  OBVIOUS
<1>1. CASE dbg' = dbg
  BY <1>1 DEF Types
<1>2. CASE ReaderApplies
  BY <1>2, AppliedDebuggers DEF ReaderApplies, Types
<1>3. ASSUME NEW t \in Threads, StopStep(t) PROVE dbg' \in [Runs -> Debuggers]
  <2>1. CASE ThreadApplies(t)
    <3>1. thr[t].apply \in Updates
      BY <2>1, OneThread DEF ThreadApplies, ThreadStates
    <3> QED
      BY <2>1, <3>1, AppliedDebuggers DEF ThreadApplies
  <2>2. CASE TakeCommand(t)
    BY <2>2, GoOnDebuggers DEF TakeCommand, Types
  <2>3. CASE Cleared(t)
    BY <2>3, GoOnDebuggers DEF Cleared, Commands
  <2> QED
    BY <1>1, <1>3, <2>1, <2>2, <2>3, HandlePauseDebuggers DEF StopStep, TimeOut, ClearOne
<1>4. ASSUME NEW t \in Threads, RunStep(t) PROVE dbg' \in [Runs -> Debuggers]
  BY <1>1, <1>4 DEF RunStep, ReadProgram, SyncAll, SyncOne, Statement, SpawnTask, EndThread
<1>5. ASSUME Request PROVE dbg' \in [Runs -> Debuggers]
  <2>1. ASSUME NEW p, NEW lines, SetBreakpoints(p, lines) PROVE dbg' = dbg
    BY <2>1 DEF SetBreakpoints
  <2>2. ASSUME NEW command, Resume(command) PROVE dbg' = dbg
    BY <2>2 DEF Resume
  <2>3. Initialize \/ Launch \/ ConfigurationDone \/ Disconnect => dbg' = dbg
    BY DEF Initialize, Launch, ConfigurationDone, Disconnect
  <2> QED
    BY <1>1, <1>5, <2>1, <2>2, <2>3, PauseDebuggers DEF Request
<1>6. ASSUME ReaderStep \/ ShutDown \/ WatchdogStep PROVE dbg' \in [Runs -> Debuggers]
  BY <1>1, <1>2, <1>6 DEF ReaderStep, ShutDown, WatchdogStep, StoreProgram, ReaderChecks,
     ReaderStores, ReaderStarts, Warn, ForceStart, WatchdogChecks, WatchdogStores, WatchdogStarts,
     StoreThread, StartRun, StartFails
<1> QED
  BY <1>1, <1>3, <1>4, <1>5, <1>6 DEF Next, vars

\* ... and so is what is stored, ...
LEMMA BreakpointsStep ==
    Types /\ [Next]_vars =>
      /\ breakpoints' \in [DOMAIN breakpoints' -> SUBSET Lines]
      /\ DOMAIN breakpoints' \subseteq Paths /\ IsFiniteSet(DOMAIN breakpoints')
      /\ DOMAIN breakpoints \subseteq DOMAIN breakpoints'
<1> DEFINE Stored == /\ breakpoints' \in [DOMAIN breakpoints' -> SUBSET Lines]
                     /\ DOMAIN breakpoints' \subseteq Paths /\ IsFiniteSet(DOMAIN breakpoints')
                     /\ DOMAIN breakpoints \subseteq DOMAIN breakpoints'
<1> SUFFICES ASSUME Types, [Next]_vars PROVE Stored
  OBVIOUS
<1>1. CASE breakpoints' = breakpoints
  BY <1>1 DEF Types
<1>2. ASSUME NEW p \in Paths, NEW lines \in SUBSET Lines, SetBreakpoints(p, lines) PROVE Stored
  <2>1. breakpoints' = [q \in DOMAIN breakpoints \cup {p} |-> IF q = p THEN lines ELSE breakpoints[q]]
    BY <1>2 DEF SetBreakpoints
  <2>2. DOMAIN breakpoints' = DOMAIN breakpoints \cup {p}
    BY <2>1
  <2>3. \A S : IsFiniteSet(S) => IsFiniteSet(S \cup {p})
    BY FS_AddElement
  <2>4. IsFiniteSet(DOMAIN breakpoints')
    BY <2>2, <2>3 DEF Types
  <2> QED
    BY <2>1, <2>2, <2>4 DEF Types
<1>3. ASSUME NEW t \in Threads, ClearOne(t) PROVE Stored
  <2>1. PICK p : breakpoints' = [breakpoints EXCEPT ![p] = {}]
    BY <1>3 DEF ClearOne
  <2> QED
    BY <2>1 DEF Types
<1>4. ASSUME NEW t \in Threads, StopStep(t) \/ RunStep(t) PROVE Stored
  BY <1>1, <1>3, <1>4 DEF StopStep, RunStep, HandlePause, TakeCommand, TimeOut, Cleared, ThreadApplies,
     ReadProgram, SyncAll, SyncOne, Statement, SpawnTask, EndThread
<1>5. ASSUME Request PROVE Stored
  BY <1>1, <1>2, <1>5 DEF Request, Initialize, Launch, ConfigurationDone, Resume, Pause, Disconnect
<1>6. ASSUME ReaderStep \/ ShutDown \/ WatchdogStep PROVE Stored
  BY <1>1, <1>6 DEF ReaderStep, ShutDown, WatchdogStep, StoreProgram, ReaderChecks, ReaderStores,
     ReaderStarts, ReaderApplies, Warn, ForceStart, WatchdogChecks, WatchdogStores, WatchdogStarts,
     StoreThread, StartRun, StartFails
<1> HIDE DEF Stored
<1> QED
  BY <1>1, <1>4, <1>5, <1>6 DEF Next, vars

\* ... and where the reader and the watchdog are, and what they have.
SessionTyped == /\ adapter' \in Flags
                /\ reader' \in [at : ReaderPlaces, apply : Updates \cup {Nothing}]
                /\ reader'.at = "apply" => reader'.apply \in Updates
                /\ watchdog' \in WatchdogPlaces
                /\ reader'.at = "stored" \/ watchdog' = "stored" => adapter'.thread # 0

LEMMA SessionStep == Types /\ [Next]_vars => SessionTyped
<1> SUFFICES ASSUME Types, [Next]_vars PROVE SessionTyped
  OBVIOUS
<1> DEFINE Readers == [at : ReaderPlaces, apply : Updates \cup {Nothing}]
<1>0. /\ adapter \in Flags /\ reader \in Readers /\ watchdog \in WatchdogPlaces
      /\ Ready \in Readers /\ Ready.at = "ready"
      /\ reader.at = "apply" => reader.apply \in Updates
      /\ reader.at = "stored" \/ watchdog = "stored" => adapter.thread # 0
  BY DEF Types, Ready, ReaderPlaces
<1>1. CASE UNCHANGED <<adapter, reader, watchdog>>
  BY <1>0, <1>1 DEF SessionTyped
<1>2. ASSUME NEW at \in ReaderPlaces \ {"apply"}, reader' = [reader EXCEPT !.at = at]
      PROVE  reader' \in Readers /\ reader'.at # "apply" /\ reader'.at = at
  BY <1>0, <1>2
\* A flag goes up, and the reader or the watchdog comes to a place where it has stored nothing.
<1>3. ASSUME \/ adapter' = adapter
             \/ adapter' = [adapter EXCEPT !.initialized = TRUE]
             \/ adapter' = [adapter EXCEPT !.launch = TRUE]
             \/ adapter' = [adapter EXCEPT !.program = TRUE]
             \/ adapter' = [adapter EXCEPT !.configured = TRUE]
             \/ adapter' = [adapter EXCEPT !.warned = TRUE],
             \/ reader' = reader \/ reader' = Ready
             \/ \E at \in {"launch", "check", "start", "ready", "leave", "gone"} :
                   reader' = [reader EXCEPT !.at = at],
             watchdog' = watchdog \/ watchdog' \in {"check", "start", "gone"}
      PROVE  SessionTyped
  <2>1. adapter' \in Flags /\ adapter'.thread = adapter.thread
    BY <1>0, <1>3 DEF Flags
  <2>2. /\ reader' \in Readers
        /\ reader'.at = "apply" => reader'.apply \in Updates
        /\ reader'.at = "stored" => reader.at = "stored"
    <3>1. CASE reader' = reader \/ reader' = Ready
      BY <1>0, <3>1
    <3>2. ASSUME NEW at \in {"launch", "check", "start", "ready", "leave", "gone"},
                 reader' = [reader EXCEPT !.at = at]
          PROVE  reader' \in Readers /\ reader'.at \notin {"apply", "stored"}
      BY <1>2, <3>2 DEF ReaderPlaces
    <3> QED
      BY <1>3, <3>1, <3>2
  <2> QED
    BY <1>0, <1>3, <2>1, <2>2 DEF SessionTyped, WatchdogPlaces
<1>4. ASSUME NEW p \in Paths, NEW lines \in SUBSET Lines, SetBreakpoints(p, lines) PROVE SessionTyped
  <2>1. reader' = [at |-> "apply", apply |-> <<p, lines>>] /\ UNCHANGED <<adapter, watchdog>>
    BY <1>4 DEF SetBreakpoints
  <2>2. <<p, lines>> \in Updates
    BY DEF Updates
  <2> QED
    BY <1>0, <2>1, <2>2 DEF SessionTyped, ReaderPlaces
<1>5. ASSUME NEW command \in Commands, Resume(command) PROVE UNCHANGED <<adapter, reader, watchdog>>
  BY <1>5 DEF Resume
<1>6. ASSUME Initialize \/ Launch \/ ConfigurationDone \/ Pause \/ Disconnect PROVE SessionTyped
  BY <1>3, <1>6 DEF Initialize, Launch, ConfigurationDone, Pause, Disconnect
<1>7. ASSUME ReaderStores \/ WatchdogStores PROVE SessionTyped
  <2>1. adapter' \in Flags /\ adapter'.thread # 0
    BY <1>0, <1>7, RunNumbers DEF ReaderStores, WatchdogStores, StoreThread, Flags
  <2>2. \/ reader' = [reader EXCEPT !.at = "stored"] /\ watchdog' = watchdog
        \/ reader' = reader /\ watchdog' = "stored"
    BY <1>7 DEF ReaderStores, WatchdogStores
  <2>3. "stored" \in ReaderPlaces \ {"apply"} /\ "stored" \in WatchdogPlaces
    BY DEF ReaderPlaces, WatchdogPlaces
  <2> QED
    BY <1>0, <1>2, <2>1, <2>2, <2>3 DEF SessionTyped
<1>8. ASSUME ReaderStep \/ ShutDown \/ WatchdogStep PROVE SessionTyped
  BY <1>3, <1>7, <1>8 DEF ReaderStep, ShutDown, WatchdogStep, StoreProgram, ReaderChecks, ReaderStarts,
     ReaderApplies, Warn, ForceStart, WatchdogChecks, WatchdogStarts, StartRun, StartFails
<1>9. ASSUME NEW t \in Threads, StopStep(t) \/ RunStep(t) PROVE SessionTyped
  <2>1. CASE ReadProgram(t)
    <3>1. adapter' = adapter \/ adapter' = [adapter EXCEPT !.debugger = t[1]]
      BY <2>1 DEF ReadProgram
    <3>2. t[1] \in Runs /\ UNCHANGED <<reader, watchdog>>
      BY <2>1, DebugAssumption DEF ReadProgram
    <3>3. adapter' \in Flags /\ adapter'.thread = adapter.thread
      BY <1>0, <3>1, <3>2 DEF Flags
    <3> QED
      BY <1>0, <3>2, <3>3 DEF SessionTyped
  <2> QED
    BY <1>1, <1>9, <2>1 DEF StopStep, RunStep, HandlePause, TakeCommand, TimeOut, ClearOne, Cleared,
       ThreadApplies, SyncAll, SyncOne, Statement, SpawnTask, EndThread
<1>10. ASSUME Request PROVE SessionTyped
  BY <1>1, <1>4, <1>5, <1>6, <1>10 DEF Request
<1>11. CASE UNCHANGED vars
  BY <1>1, <1>11 DEF vars
<1> QED
  BY <1>8, <1>9, <1>10, <1>11 DEF Next

RestTyped == /\ queue' \in Seq(Commands)
             /\ client' \in [messages : Nat, told : BOOLEAN]
             /\ past' \in [expired : BOOLEAN, overlap : BOOLEAN, silence : {"no", "clearing", "calm"}]

LEMMA RestStep == Types /\ [Next]_vars => RestTyped
<1> SUFFICES ASSUME Types, [Next]_vars PROVE RestTyped
  OBVIOUS
<1> DEFINE Clients == [messages : Nat, told : BOOLEAN]
           Pasts == [expired : BOOLEAN, overlap : BOOLEAN, silence : {"no", "clearing", "calm"}]
<1>0. queue \in Seq(Commands) /\ client \in Clients /\ past \in Pasts
  BY DEF Types
<1>1. \A k \in Seq(Commands), c \in Commands : Append(k, c) \in Seq(Commands)
  OBVIOUS
<1>2. Message => client' \in Clients
  BY <1>0 DEF Message
<1>3. Talk => past' \in Pasts
  BY <1>0 DEF Talk
<1>4. ASSUME Request PROVE RestTyped
  <2>1. "continue" \in Commands
    BY DEF Commands
  <2>2. ASSUME NEW command \in Commands, Resume(command) PROVE RestTyped
    BY <1>0, <1>1, <1>3, <2>2 DEF Resume, RestTyped
  <2>3. ASSUME NEW p \in Paths, NEW lines \in SUBSET Lines, SetBreakpoints(p, lines) PROVE RestTyped
    <3>1. past' = [past EXCEPT !.silence = "no", !.overlap = past.overlap \/ At("sync") \cup At("clearing") # {}]
      BY <2>3 DEF SetBreakpoints
    <3>2. past' \in Pasts
      BY <1>0, <3>1
    <3> QED
      BY <1>0, <1>2, <2>3, <3>2 DEF SetBreakpoints, RestTyped
  <2>4. ASSUME Initialize \/ Launch \/ ConfigurationDone \/ Pause PROVE RestTyped
    BY <1>0, <1>2, <1>3, <2>4 DEF Initialize, Launch, ConfigurationDone, Pause, RestTyped
  <2>5. ASSUME Disconnect PROVE RestTyped
    BY <1>0, <1>1, <1>2, <1>3, <2>1, <2>5 DEF Disconnect, RestTyped
  <2> QED
    BY <1>4, <2>2, <2>3, <2>4, <2>5 DEF Request
<1>5. ASSUME StartRun PROVE RestTyped
  <2>1. past' = [past EXCEPT !.overlap = past.overlap \/ \E t \in Threads : Live(t)]
    BY <1>5 DEF StartRun
  <2>2. past' \in Pasts
    BY <1>0, <2>1
  <2> QED
    BY <1>0, <1>5, <2>2 DEF StartRun, RestTyped
<1>6. CASE UNCHANGED <<queue, client, past>>
  BY <1>0, <1>6 DEF RestTyped
<1>7. ASSUME ReaderStep \/ ShutDown \/ WatchdogStep PROVE RestTyped
  BY <1>5, <1>6, <1>7 DEF ReaderStep, ShutDown, WatchdogStep, StoreProgram, ReaderChecks, ReaderStores,
     ReaderStarts, ReaderApplies, Warn, ForceStart, WatchdogChecks, WatchdogStores, WatchdogStarts,
     StoreThread, StartFails
<1>8. ASSUME NEW t \in Threads, StopStep(t) PROVE RestTyped
  <2>1. CASE HandlePause(t)
    BY <1>0, <2>1 DEF HandlePause, RestTyped
  <2>2. CASE TakeCommand(t)
    BY <1>0, <2>2 DEF TakeCommand, RestTyped
  <2>3. CASE TimeOut(t)
    <3> DEFINE apart == past.overlap \/ reader.at = "apply"
    <3>1. apart \in BOOLEAN
      OBVIOUS
    <3>2. past' = [past EXCEPT !.expired = TRUE, !.overlap = apart,
                               !.silence = IF apart THEN "no" ELSE "clearing"]
      BY <2>3 DEF TimeOut
    <3> HIDE DEF apart
    <3>3. past' \in Pasts
      BY <1>0, <3>1, <3>2
    <3> QED
      BY <1>0, <2>3, <3>3 DEF TimeOut, RestTyped
  <2>4. CASE Cleared(t)
    <3>1. past' = past \/ past' = [past EXCEPT !.silence = "calm"]
      BY <1>0, <2>4 DEF Cleared
    <3> QED
      BY <1>0, <2>4, <3>1 DEF Cleared, RestTyped
  <2> QED
    BY <1>6, <1>8, <2>1, <2>2, <2>3, <2>4 DEF StopStep, ClearOne, ThreadApplies
<1>9. ASSUME NEW t \in Threads, RunStep(t) PROVE RestTyped
  BY <1>6, <1>9 DEF RunStep, ReadProgram, SyncAll, SyncOne, Statement, SpawnTask, EndThread
<1> QED
  BY <1>4, <1>6, <1>7, <1>8, <1>9 DEF Next, vars

LEMMA TypesStep == Types /\ [Next]_vars => Types'
  BY ThreadsStep, DebuggersStep, BreakpointsStep, SessionStep, RestStep
     DEF Types, ThreadsTyped, SessionTyped, RestTyped

LEMMA TypesInit == Init => Types
<1> SUFFICES ASSUME Init PROVE Types
  OBVIOUS
<1>1. breakpoints = <<>> /\ DOMAIN breakpoints = {}
  BY DEF Init
<1>2. IsFiniteSet({})
  BY FS_EmptySet
<1>3. /\ adapter \in Flags /\ reader \in [at : ReaderPlaces, apply : Updates \cup {Nothing}]
      /\ reader.at = "ready" /\ watchdog = "watch"
  BY DEF Init, Flags, Ready, ReaderPlaces
<1>4. dbg \in [Runs -> Debuggers]
  BY DEF Init, Debuggers, NoStep
<1>5. thr \in [Threads -> ThreadStates({})] /\ \A t \in Threads : thr[t].at = "off"
  BY DEF Init, ThreadStates, ThreadPlaces
<1>6. /\ client \in [messages : Nat, told : BOOLEAN] /\ queue \in Seq(Commands)
      /\ past \in [expired : BOOLEAN, overlap : BOOLEAN, silence : {"no", "clearing", "calm"}]
  BY DEF Init
<1>7. breakpoints \in [{} -> SUBSET Lines]
  BY <1>1
<1> QED
  BY <1>1, <1>2, <1>3, <1>4, <1>5, <1>6, <1>7 DEF Types, WatchdogPlaces
-----------------------------------------------------------------------------
\* The steps, apart from those of the threads, as the other invariants see them.

\* Steps that only concern the flags of the session.
Aside == /\ UNCHANGED <<breakpoints, dbg, thr>>
         /\ adapter'.debugger = adapter.debugger
         /\ reader' = reader \/ (reader.at # "apply" /\ reader'.at # "apply")
         /\ past'.overlap = past.overlap /\ past'.expired = past.expired
         /\ past'.silence = "no" \/ (past'.silence = past.silence /\ queue' = queue)

\* A run begins.
Starts == /\ StartRun /\ adapter.thread # 0
          /\ reader' = reader \/ (reader.at # "apply" /\ reader'.at # "apply")

LEMMA Steps == ASSUME Types, [Next]_vars
               PROVE  \/ Aside
                      \/ \E p \in Paths, lines \in SUBSET Lines : SetBreakpoints(p, lines)
                      \/ Pause
                      \/ ReaderApplies
                      \/ Starts
                      \/ \E t \in Threads : StopStep(t) \/ RunStep(t)
<1>0. adapter \in Flags /\ reader \in [at : ReaderPlaces, apply : Updates \cup {Nothing}]
        /\ past \in [expired : BOOLEAN, overlap : BOOLEAN, silence : {"no", "clearing", "calm"}]
  BY DEF Types
<1>1. ASSUME \/ adapter' = adapter
             \/ adapter' = [adapter EXCEPT !.initialized = TRUE]
             \/ adapter' = [adapter EXCEPT !.launch = TRUE]
             \/ adapter' = [adapter EXCEPT !.program = TRUE]
             \/ adapter' = [adapter EXCEPT !.configured = TRUE]
             \/ adapter' = [adapter EXCEPT !.warned = TRUE]
             \/ adapter' = [adapter EXCEPT !.thread = adapter.thread + 1]
      PROVE  adapter'.debugger = adapter.debugger
  BY <1>0, <1>1 DEF Flags
<1>2. ASSUME NEW at \in ReaderPlaces \ {"apply"}, reader' = [reader EXCEPT !.at = at]
      PROVE  reader'.at # "apply"
  BY <1>0, <1>2
<1>3. ASSUME Talk PROVE past'.overlap = past.overlap /\ past'.expired = past.expired /\ past'.silence = "no"
  BY <1>0, <1>3 DEF Talk
<1>4. ASSUME Initialize PROVE Aside
  BY <1>1, <1>4 DEF Initialize, Aside
<1>5. ASSUME Launch \/ ConfigurationDone PROVE Aside
  <2>1. reader.at = "ready" /\ \E at \in {"launch", "check"} : reader' = [reader EXCEPT !.at = at]
    BY <1>5 DEF Launch, ConfigurationDone, Message
  <2>2. reader.at # "apply" /\ reader'.at # "apply"
    BY <1>2, <2>1 DEF ReaderPlaces
  <2> QED
    BY <1>1, <1>3, <1>5, <2>2 DEF Launch, ConfigurationDone, Aside
<1>6. ASSUME NEW command, Resume(command) PROVE Aside
  BY <1>3, <1>6 DEF Resume, Aside
<1>7. ASSUME Disconnect PROVE Aside
  BY <1>2, <1>3, <1>7 DEF Disconnect, Message, Aside, ReaderPlaces
<1>8. ASSUME StoreProgram \/ ReaderChecks \/ ReaderStores \/ ShutDown PROVE Aside
  <2>1. reader.at # "apply" /\ \E at \in {"check", "start", "stored", "ready", "gone"} :
                                   reader' = [reader EXCEPT !.at = at]
    BY <1>8 DEF StoreProgram, ReaderChecks, ReaderStores, ShutDown
  <2>2. reader.at # "apply" /\ reader'.at # "apply"
    BY <1>2, <2>1 DEF ReaderPlaces
  <2>3. adapter'.debugger = adapter.debugger
    BY <1>1, <1>8 DEF StoreProgram, ReaderChecks, ReaderStores, StoreThread, ShutDown
  <2> QED
    BY <1>8, <2>2, <2>3 DEF StoreProgram, ReaderChecks, ReaderStores, StoreThread, ShutDown, Aside
<1>9. ASSUME Warn \/ ForceStart \/ WatchdogChecks \/ WatchdogStores PROVE Aside
  <2>1. adapter'.debugger = adapter.debugger
    BY <1>1, <1>9 DEF Warn, ForceStart, WatchdogChecks, WatchdogStores, StoreThread
  <2> QED
    BY <1>9, <2>1 DEF Warn, ForceStart, WatchdogChecks, WatchdogStores, StoreThread, Aside
<1>10. ASSUME ReaderStarts \/ WatchdogStarts PROVE Starts \/ Aside
  <2>1. adapter.thread # 0
    BY <1>10 DEF ReaderStarts, WatchdogStarts, Types
  <2>2. reader' = reader \/ (reader.at # "apply" /\ reader'.at # "apply")
    <3>1. \/ reader' = reader
          \/ reader.at = "stored" /\ (reader' = Ready \/ reader' = [reader EXCEPT !.at = "gone"])
      BY <1>10 DEF ReaderStarts, WatchdogStarts
    <3> QED
      BY <1>2, <3>1 DEF Ready, ReaderPlaces
  <2>3. StartRun \/ StartFails
    BY <1>10 DEF ReaderStarts, WatchdogStarts
  <2> QED
    BY <2>1, <2>2, <2>3 DEF Starts, StartFails, Aside
<1>11. ASSUME UNCHANGED vars PROVE Aside
  BY <1>11 DEF vars, Aside
<1> QED
  BY <1>4, <1>5, <1>6, <1>7, <1>8, <1>9, <1>10, <1>11 DEF Next, Request, ReaderStep, WatchdogStep

LEMMA StartsRun ==
    ASSUME Types, Starts
    PROVE  /\ UNCHANGED <<adapter, breakpoints, dbg, queue>>
           /\ past'.overlap = (past.overlap \/ \E t \in Threads : Live(t))
           /\ past'.silence = past.silence /\ past'.expired = past.expired
  BY DEF Types, Flags, Starts, StartRun

-----------------------------------------------------------------------------
\* Where a start is pending.

LEMMA StartStep == Types /\ LaunchStored /\ StartPending /\ [Next]_vars => (LaunchStored /\ StartPending)'
<1> SUFFICES ASSUME Types, LaunchStored, StartPending, [Next]_vars PROVE (LaunchStored /\ StartPending)'
  OBVIOUS
<1>0. adapter \in Flags /\ reader \in [at : ReaderPlaces, apply : Updates \cup {Nothing}]
        /\ reader' \in [at : ReaderPlaces, apply : Updates \cup {Nothing}]
  BY TypesStep DEF Types
<1>1. CASE UNCHANGED <<adapter, reader, watchdog>>
  BY <1>1 DEF LaunchStored, StartPending
<1>2. ASSUME NEW p, NEW lines, SetBreakpoints(p, lines) PROVE (LaunchStored /\ StartPending)'
  BY <1>2 DEF SetBreakpoints, Message, LaunchStored, StartPending
<1>3. ASSUME Initialize PROVE (LaunchStored /\ StartPending)'
  BY <1>0, <1>3 DEF Initialize, LaunchStored, StartPending, Flags
<1>4. ASSUME Launch PROVE (LaunchStored /\ StartPending)'
  BY <1>0, <1>4 DEF Launch, Message, LaunchStored, StartPending, Flags
<1>5. ASSUME ConfigurationDone \/ Disconnect PROVE (LaunchStored /\ StartPending)'
  BY <1>0, <1>5 DEF ConfigurationDone, Disconnect, Message, LaunchStored, StartPending, Flags
<1>6. ASSUME NEW command, Resume(command) PROVE UNCHANGED <<adapter, reader, watchdog>>
  BY <1>6 DEF Resume
<1>7. ASSUME Pause PROVE UNCHANGED <<adapter, reader, watchdog>>
  BY <1>7 DEF Pause
<1>8. ASSUME StoreProgram \/ ShutDown PROVE (LaunchStored /\ StartPending)'
  BY <1>0, <1>8 DEF StoreProgram, ShutDown, LaunchStored, StartPending, Flags
\* A check starts a run when none was, for the program is stored unless the
\* reader is yet to do that, and will then check again.
<1>9. adapter.launch /\ adapter.configured /\ adapter.thread = 0 /\ reader.at # "launch" => CanStart
  BY RunNumbers DEF LaunchStored, CanStart, Running
<1>10. ASSUME ReaderChecks PROVE (LaunchStored /\ StartPending)'
  BY <1>0, <1>9, <1>10 DEF ReaderChecks, LaunchStored, StartPending
<1>11. ASSUME WatchdogChecks PROVE (LaunchStored /\ StartPending)'
  BY <1>9, <1>11 DEF WatchdogChecks, LaunchStored, StartPending
<1>12. ASSUME ReaderStores \/ WatchdogStores PROVE (LaunchStored /\ StartPending)'
  <2>1. adapter'.thread # 0 /\ adapter'.launch = adapter.launch /\ adapter'.program = adapter.program
    BY <1>0, <1>12, RunNumbers DEF ReaderStores, WatchdogStores, StoreThread, Flags
  <2>2. reader.at = "launch" => reader'.at = "launch"
    BY <1>12 DEF ReaderStores, WatchdogStores
  <2> QED
    BY <2>1, <2>2 DEF LaunchStored, StartPending
<1>13. ASSUME ReaderStarts \/ WatchdogStarts PROVE (LaunchStored /\ StartPending)'
  <2>1. adapter' = adapter /\ adapter.thread # 0
    BY <1>13 DEF ReaderStarts, WatchdogStarts, StartRun, StartFails, Types
  <2>2. reader.at = "launch" => reader'.at = "launch"
    BY <1>13 DEF ReaderStarts, WatchdogStarts
  <2> QED
    BY <2>1, <2>2 DEF LaunchStored, StartPending
<1>14. ASSUME ReaderApplies PROVE (LaunchStored /\ StartPending)'
  BY <1>14 DEF ReaderApplies, Ready, LaunchStored, StartPending
<1>15. ASSUME Warn \/ ForceStart PROVE (LaunchStored /\ StartPending)'
  BY <1>0, <1>15 DEF Warn, ForceStart, LaunchStored, StartPending, Flags
<1>16. ASSUME NEW t \in Threads, StopStep(t) \/ RunStep(t) PROVE (LaunchStored /\ StartPending)'
  <2>1. CASE ReadProgram(t)
    <3>1. /\ adapter'.launch = adapter.launch /\ adapter'.program = adapter.program
          /\ adapter'.configured = adapter.configured /\ adapter'.thread = adapter.thread
      BY <1>0, <2>1 DEF ReadProgram, Flags
    <3> QED
      BY <2>1, <3>1 DEF ReadProgram, LaunchStored, StartPending
  <2> QED
    BY <1>1, <1>16, <2>1 DEF StopStep, RunStep, HandlePause, TakeCommand, TimeOut, ClearOne, Cleared,
       ThreadApplies, SyncAll, SyncOne, Statement, SpawnTask, EndThread
<1>17. UNCHANGED vars => UNCHANGED <<adapter, reader, watchdog>>
  BY DEF vars
<1> QED
  BY <1>1, <1>2, <1>3, <1>4, <1>5, <1>6, <1>7, <1>8, <1>10, <1>11, <1>12, <1>13, <1>14, <1>15, <1>16,
     <1>17 DEF Next, Request, ReaderStep, WatchdogStep
-----------------------------------------------------------------------------
\* What every step of a thread leaves alone.

LEMMA ThreadAlone ==
    ASSUME Types, NEW t \in Threads, StopStep(t) \/ RunStep(t)
    PROVE  \A u \in Threads \ {t} : thr'[u] = thr[u]
<1>1. ASSUME NEW command, GoOn(t, command) PROVE \A u \in Threads \ {t} : thr'[u] = thr[u]
  BY <1>1 DEF GoOn, Types
<1>2. CASE TakeCommand(t) \/ Cleared(t)
  BY <1>1, <1>2 DEF TakeCommand, Cleared
<1> QED
  BY <1>2, HandlePauseThread, TimeOutThread, ClearOneThread, ThreadAppliesThread,
     ReadProgramThread, SyncAllThread, SyncOneThread, StatementThread, SpawnTaskThread,
     EndThreadThread DEF StopStep, RunStep, Thread

\* Most steps of a thread leave the debuggers alone.
LEMMA DebuggersLeft == ASSUME NEW t, TimeOut(t) \/ ClearOne(t) \/ RunStep(t) PROVE dbg' = dbg
<1>1. CASE TimeOut(t)
  BY <1>1 DEF TimeOut
<1>2. CASE ClearOne(t)
  <2>1. UNCHANGED <<adapter, queue, dbg, reader, watchdog, client, past>>
    BY <1>2 DEF ClearOne
  <2> QED
    BY <2>1
<1>3. CASE RunStep(t)
  BY <1>3 DEF RunStep, ReadProgram, SyncAll, SyncOne, Statement, SpawnTask, EndThread
<1> QED
  BY <1>1, <1>2, <1>3

LEMMA ThreadDebuggers ==
    ASSUME Types, NEW t \in Threads, StopStep(t) \/ RunStep(t)
    PROVE  \A r \in Runs : r # adapter.debugger /\ r # t[1] => dbg'[r] = dbg[r]
<1>1. CASE ThreadApplies(t)
  <2>1. thr[t].apply \in Updates
    BY <1>1, OneThread DEF ThreadApplies, ThreadStates
  <2> QED
    BY <1>1, <2>1, AppliedDebuggers DEF ThreadApplies
<1>2. CASE TakeCommand(t)
  BY <1>2, GoOnDebuggers DEF TakeCommand, Types
<1>3. CASE Cleared(t)
  BY <1>3, GoOnDebuggers DEF Cleared, Commands
<1>4. CASE HandlePause(t)
  BY <1>4, HandlePauseDebuggers
<1>5. CASE TimeOut(t) \/ ClearOne(t) \/ RunStep(t)
  BY <1>5, DebuggersLeft
<1> QED
  BY <1>1, <1>2, <1>3, <1>4, <1>5 DEF StopStep

LEMMA ThreadSession ==
    ASSUME Types, NEW t \in Threads, StopStep(t) \/ RunStep(t)
    PROVE  /\ UNCHANGED <<reader, watchdog>> /\ adapter'.thread = adapter.thread
           /\ \/ adapter' = adapter
              \/ thr[t].at = "read" /\ adapter'.debugger = t[1]
           /\ DOMAIN breakpoints' = DOMAIN breakpoints
<1>1. CASE ReadProgram(t)
  BY <1>1 DEF ReadProgram, Types, Flags
<1>2. CASE ClearOne(t)
  BY <1>2 DEF ClearOne
<1> QED
  BY <1>1, <1>2 DEF StopStep, RunStep, HandlePause, TakeCommand, TimeOut, Cleared, ThreadApplies,
     SyncAll, SyncOne, Statement, SpawnTask, EndThread

\* A thread acts only after its run has begun, and begins by being spawned.
LEMMA ThreadBegun ==
    ASSUME Types, Untouched, Loops, NEW t \in Threads, StopStep(t) \/ RunStep(t)
    PROVE  Begun(t[1])
<1>1. CASE SpawnTask(t)
  <2>1. PICK u \in Threads : thr[u].at = "run" /\ u[1] = t[1]
    BY <1>1 DEF SpawnTask, At
  <2> QED
    BY <2>1 DEF Untouched
<1>2. CASE thr[t].at # "off"
  BY <1>2 DEF Untouched
<1>3. CASE ThreadApplies(t)
  <2>1. thr[t].at \in {"sync", "clearing"}
    BY <1>3 DEF ThreadApplies, Loops
  <2> QED
    BY <2>1 DEF Untouched
<1>4. thr[t].at # "off" \/ SpawnTask(t) \/ ThreadApplies(t)
  BY DEF StopStep, RunStep, HandlePause, TakeCommand, TimeOut, Cleared, ClearOne,
     ReadProgram, SyncAll, SyncOne, Statement, EndThread
<1> QED
  BY <1>1, <1>2, <1>3, <1>4

\* A thread begins once.
LEMMA ThreadNeverOff ==
    ASSUME Types, NEW t \in Threads, StopStep(t) \/ RunStep(t), thr[t].at # "off"
    PROVE  thr'[t].at # "off"
<1>1. ASSUME NEW command, GoOn(t, command), UNCHANGED breakpoints PROVE thr'[t].at = "run"
  BY <1>1, GoOnThread DEF Thread
<1>2. CASE TakeCommand(t) \/ Cleared(t)
  BY <1>1, <1>2 DEF TakeCommand, Cleared
<1>3. CASE StopStep(t)
  BY <1>2, <1>3, HandlePauseThread, TimeOutThread, ClearOneThread, ThreadAppliesThread
     DEF StopStep, Thread
<1>4. CASE RunStep(t)
  BY <1>4, ReadProgramThread, SyncAllThread, SyncOneThread, StatementThread, SpawnTaskThread,
     EndThreadThread DEF RunStep, Thread
<1> QED
  BY <1>3, <1>4

LEMMA NeverOff == Types /\ [Next]_vars => \A t \in Threads : thr[t].at # "off" => thr'[t].at # "off"
<1> SUFFICES ASSUME Types, [Next]_vars, NEW t \in Threads, thr[t].at # "off" PROVE thr'[t].at # "off"
  OBVIOUS
<1>1. CASE Starts
  BY <1>1, StartRunThread DEF Starts, Thread
<1>2. ASSUME NEW u \in Threads, StopStep(u) \/ RunStep(u) PROVE thr'[t].at # "off"
  BY <1>2, ThreadAlone, ThreadNeverOff
<1>3. ASSUME NEW p, NEW lines, SetBreakpoints(p, lines) PROVE thr' = thr
  BY <1>3 DEF SetBreakpoints
<1>4. Aside \/ Pause \/ ReaderApplies => thr' = thr
  BY DEF Aside, Pause, ReaderApplies
<1> QED
  BY <1>1, <1>2, <1>3, <1>4, Steps

\* A run that has begun stays one; the program of a run is one of its threads.
LEMMA BegunStays == Types /\ [Next]_vars => \A run \in Runs : Begun(run) => Begun(run)'
  BY NeverOff, DebugAssumption DEF Begun

\* A thread that is stored is started, unless it was already: by whoever stored
\* it, or by the other one.
LEMMA StoredStep == Types /\ StoredPending /\ [Next]_vars => StoredPending'
<1> SUFFICES ASSUME Types, StoredPending, [Next]_vars, adapter'.thread # 0,
                    thr'[Program(adapter'.thread)].at = "off"
             PROVE  reader'.at = "stored" \/ watchdog' = "stored"
  BY DEF StoredPending, Begun
<1>0. adapter \in Flags /\ reader \in [at : ReaderPlaces, apply : Updates \cup {Nothing}]
  BY DEF Types
<1>1. CASE ReaderStores \/ WatchdogStores
  BY <1>0, <1>1 DEF ReaderStores, WatchdogStores
<1>2. ASSUME ReaderStarts \/ WatchdogStarts PROVE FALSE
  <2>1. adapter.thread # 0 /\ adapter' = adapter /\ (StartRun \/ StartFails)
    BY <1>2 DEF ReaderStarts, WatchdogStarts, StartRun, StartFails, Types
  <2>2. CASE StartRun
    BY <2>1, <2>2, StartRunThread DEF Thread
  <2>3. CASE StartFails
    BY <2>1, <2>3 DEF StartFails
  <2> QED
    BY <2>1, <2>2, <2>3
\* Every other step leaves the thread that is stored, and who is to start it.
<1>3. ASSUME adapter'.thread = adapter.thread,
             reader.at = "stored" => reader'.at = "stored",
             watchdog = "stored" => watchdog' = "stored"
      PROVE  reader'.at = "stored" \/ watchdog' = "stored"
  <2>1. adapter.thread \in Runs
    BY <1>0, <1>3 DEF Flags
  <2>2. ~Begun(adapter.thread)
    BY <1>3, <2>1, NeverOff, DebugAssumption DEF Begun
  <2> QED
    BY <1>3, <2>2 DEF StoredPending
<1>4. CASE UNCHANGED <<adapter, reader, watchdog>>
  BY <1>3, <1>4
<1>5. ASSUME \/ adapter' = adapter
             \/ adapter' = [adapter EXCEPT !.initialized = TRUE]
             \/ adapter' = [adapter EXCEPT !.launch = TRUE]
             \/ adapter' = [adapter EXCEPT !.program = TRUE]
             \/ adapter' = [adapter EXCEPT !.configured = TRUE]
             \/ adapter' = [adapter EXCEPT !.warned = TRUE]
      PROVE  adapter'.thread = adapter.thread
  BY <1>0, <1>5 DEF Flags
<1>6. ASSUME NEW p, NEW lines, SetBreakpoints(p, lines) PROVE reader'.at = "stored" \/ watchdog' = "stored"
  BY <1>3, <1>6 DEF SetBreakpoints, Message
<1>7. ASSUME NEW command, Resume(command) PROVE UNCHANGED <<adapter, reader, watchdog>>
  BY <1>7 DEF Resume
<1>8. CASE Request
  <2>1. CASE Initialize \/ Launch \/ ConfigurationDone \/ Pause \/ Disconnect
    BY <1>3, <1>5, <2>1 DEF Initialize, Launch, ConfigurationDone, Pause, Disconnect, Message
  <2> QED
    BY <1>4, <1>6, <1>7, <1>8, <2>1 DEF Request
<1>9. CASE StoreProgram \/ ReaderChecks \/ ReaderApplies \/ ShutDown
  BY <1>3, <1>5, <1>9 DEF StoreProgram, ReaderChecks, ReaderApplies, ShutDown
<1>10. CASE Warn \/ ForceStart \/ WatchdogChecks
  BY <1>3, <1>5, <1>10 DEF Warn, ForceStart, WatchdogChecks
<1>11. ASSUME NEW t \in Threads, StopStep(t) \/ RunStep(t)
       PROVE  reader'.at = "stored" \/ watchdog' = "stored"
  BY <1>3, <1>11, ThreadSession
<1>12. UNCHANGED vars => UNCHANGED <<adapter, reader, watchdog>>
  BY DEF vars
<1> QED
  BY <1>1, <1>2, <1>4, <1>8, <1>9, <1>10, <1>11, <1>12 DEF Next, ReaderStep, WatchdogStep

LEMMA UntouchedStep == Types /\ Untouched /\ Loops /\ [Next]_vars => Untouched'
<1> SUFFICES ASSUME Types, Untouched, Loops, [Next]_vars PROVE Untouched'
  OBVIOUS
<1>0. \A r \in Runs : Begun(r) => Begun(r)'
  BY BegunStays
<1>1. ASSUME adapter'.debugger = adapter.debugger, \A u \in Threads : thr'[u].at # "off" => Begun(u[1])',
             \A r \in Runs : r # adapter.debugger =>
                /\ dbg'[r].bps = dbg[r].bps /\ dbg'[r].step = dbg[r].step
                /\ dbg'[r].force = dbg[r].force
      PROVE  Untouched'
  <2>1. ASSUME NEW r \in Runs, ~Begun(r)' PROVE Quiet(dbg[r])'
    <3>1. r # adapter.debugger /\ Quiet(dbg[r])
      BY <1>0, <2>1 DEF Untouched
    <3> QED
      BY <1>1, <3>1 DEF Quiet
  <2>2. \A r \in Runs : r = adapter'.debugger => Begun(r)'
    BY <1>0, <1>1 DEF Untouched
  <2> QED
    BY <1>1, <2>1, <2>2 DEF Untouched
<1>2. ASSUME adapter'.debugger = adapter.debugger, thr' = thr,
             \A r \in Runs : r # adapter.debugger =>
                /\ dbg'[r].bps = dbg[r].bps /\ dbg'[r].step = dbg[r].step
                /\ dbg'[r].force = dbg[r].force
      PROVE  Untouched'
  BY <1>1, <1>2 DEF Untouched, Begun
<1>3. CASE Aside
  BY <1>2, <1>3 DEF Aside
<1>4. ASSUME NEW p, NEW lines, SetBreakpoints(p, lines) PROVE Untouched'
  BY <1>2, <1>4 DEF SetBreakpoints
<1>5. CASE Pause
  BY <1>2, <1>5, PauseDebuggers DEF Pause
<1>6. CASE ReaderApplies
  <2>1. reader.apply \in Updates
    BY <1>6 DEF ReaderApplies, Types
  <2> QED
    BY <1>2, <1>6, <2>1, AppliedDebuggers DEF ReaderApplies
<1>7. CASE Starts
  <2> DEFINE t == Program(adapter.thread)
  <2>1. UNCHANGED <<adapter, dbg>>
    BY <1>7, StartsRun
  <2>2. t \in Threads /\ t[1] = adapter.thread /\ Thread(t, "read", thr[t].left, thr[t].apply)
    BY <1>7, StartRunThread DEF Starts
  <2>3. Begun(adapter.thread)'
    BY <2>1, <2>2 DEF Begun, Thread
  <2>4. ASSUME NEW u \in Threads, thr'[u].at # "off" PROVE Begun(u[1])'
    <3>1. CASE u = t
      BY <2>1, <2>2, <2>3, <3>1 DEF Begun
    <3>2. CASE u # t
      BY <1>0, <2>2, <2>4, <3>2, DebugAssumption DEF Untouched, Thread
    <3> QED
      BY <3>1, <3>2
  <2> QED
    BY <1>1, <2>1, <2>4
<1>8. ASSUME NEW t \in Threads, StopStep(t) \/ RunStep(t) PROVE Untouched'
  <2>1. t[1] \in Runs /\ Begun(t[1])
    BY <1>8, ThreadBegun, DebugAssumption
  <2>2. adapter'.debugger \in {adapter.debugger, t[1]}
    BY <1>8, ThreadSession
  <2>3. ASSUME NEW u \in Threads, thr'[u].at # "off" PROVE Begun(u[1])'
    <3>1. CASE u = t
      BY <1>0, <2>1, <3>1
    <3>2. CASE u # t
      BY <1>0, <1>8, <2>3, <3>2, ThreadAlone, DebugAssumption DEF Untouched
    <3> QED
      BY <3>1, <3>2
  <2>4. ASSUME NEW r \in Runs, ~Begun(r)' PROVE Quiet(dbg[r])'
    <3>1. r # adapter.debugger /\ r # t[1] /\ Quiet(dbg[r])
      BY <1>0, <2>1, <2>4 DEF Untouched
    <3>2. dbg'[r] = dbg[r]
      BY <1>8, <3>1, ThreadDebuggers
    <3> QED
      BY <3>1, <3>2 DEF Quiet
  <2>5. \A r \in Runs : r = adapter'.debugger => Begun(r)'
    BY <1>0, <2>1, <2>2 DEF Untouched
  <2> QED
    BY <2>3, <2>4, <2>5 DEF Untouched
<1> QED
  BY <1>3, <1>4, <1>5, <1>6, <1>7, <1>8, Steps
-----------------------------------------------------------------------------
\* What is on its way to a debugger.

ThreadOnWay(t) == thr[t].apply # Nothing =>
                     /\ thr[t].at \in {"sync", "clearing"}
                     /\ thr[t].apply[1] \in DOMAIN breakpoints
                     /\ thr[t].at = "clearing" => thr[t].apply[2] = {}

LEMMA OnWay == ASSUME Loops, NEW t \in Threads PROVE ThreadOnWay(t)
  BY DEF Loops, ThreadOnWay

LEMMA ThreadOnWayStep ==
    ASSUME Types, Loops, NEW t \in Threads, StopStep(t) \/ RunStep(t) PROVE ThreadOnWay(t)'
<1>0. ThreadOnWay(t) /\ DOMAIN breakpoints' = DOMAIN breakpoints
  BY OnWay, ThreadSession
\* A thread that is neither in a loop over the files nor comes to one has nothing
\* to apply, before and after its step.
<1>1. ASSUME thr[t].at \notin {"sync", "clearing"}, NEW at, NEW left, Thread(t, at, left, thr[t].apply)
      PROVE  ThreadOnWay(t)'
  BY <1>0, <1>1 DEF Thread, ThreadOnWay
<1>2. CASE HandlePause(t)
  BY <1>1, <1>2, HandlePauseThread DEF HandlePause
<1>3. CASE TakeCommand(t)
  BY <1>1, <1>3, GoOnThread DEF TakeCommand
<1>4. CASE TimeOut(t)
  BY <1>1, <1>4, TimeOutThread DEF TimeOut
<1>5. CASE ReadProgram(t)
  BY <1>1, <1>5, ReadProgramThread DEF ReadProgram
<1>6. CASE SyncAll(t)
  <2>1. thr[t].at = "made"
    BY <1>6 DEF SyncAll
  <2>2. Thread(t, "sync", DOMAIN breakpoints, thr[t].apply)
    BY <1>6, SyncAllThread
  <2> QED
    BY <1>1, <2>1, <2>2
<1>7. ASSUME NEW loc \in Places, NEW depth \in 0..MaxDepth, Statement(t, loc, depth)
      PROVE  ThreadOnWay(t)'
  BY <1>1, <1>7, StatementThread DEF Statement
<1>8. CASE SpawnTask(t)
  BY <1>1, <1>8, SpawnTaskThread DEF SpawnTask
<1>9. CASE EndThread(t)
  BY <1>1, <1>9, EndThreadThread DEF EndThread
\* In a loop, it takes a file that is stored, applies it, or has nothing left.
<1>10. CASE SyncOne(t)
  <2>1. thr[t].apply = Nothing
    BY <1>10 DEF SyncOne
  <2>2. CASE \E at, left : Thread(t, at, left, thr[t].apply)
    BY <2>1, <2>2 DEF Thread, ThreadOnWay
  <2>3. ASSUME NEW p \in thr[t].left, Thread(t, "sync", thr[t].left \ {p}, <<p, breakpoints[p]>>)
        PROVE  ThreadOnWay(t)'
    <3>1. p \in DOMAIN breakpoints
      BY OneThread DEF ThreadStates
    <3> QED
      BY <1>0, <2>3, <3>1 DEF Thread, ThreadOnWay
  <2> QED
    BY <1>10, <2>2, <2>3, SyncOneThread
<1>11. CASE ClearOne(t)
  <2>1. PICK p \in thr[t].left : Thread(t, "clearing", thr[t].left \ {p}, <<p, {}>>)
    BY <1>11, ClearOneThread
  <2>2. p \in DOMAIN breakpoints
    BY OneThread DEF ThreadStates
  <2> QED
    BY <1>0, <2>1, <2>2 DEF Thread, ThreadOnWay
<1>12. CASE Cleared(t)
  <2>1. thr[t].apply = Nothing /\ Thread(t, "run", thr[t].left, thr[t].apply)
    BY <1>0, <1>12, GoOnThread DEF Cleared
  <2> QED
    BY <2>1 DEF Thread, ThreadOnWay
<1>13. CASE ThreadApplies(t)
  BY <1>13, ThreadAppliesThread DEF Thread, ThreadOnWay
<1> QED
  BY <1>2, <1>3, <1>4, <1>5, <1>6, <1>7, <1>8, <1>9, <1>10, <1>11, <1>12, <1>13 DEF StopStep, RunStep

\* Only an update that is applied changes the breakpoints of a debugger.
LEMMA ThreadBreakpoints ==
    ASSUME Types, NEW t \in Threads, StopStep(t) \/ RunStep(t), ~ThreadApplies(t)
    PROVE  \A r \in Runs : dbg'[r].bps = dbg[r].bps
<1>1. CASE TakeCommand(t)
  BY <1>1, GoOnDebuggers DEF TakeCommand, Types
<1>2. CASE Cleared(t)
  BY <1>2, GoOnDebuggers DEF Cleared, Commands
<1>3. CASE HandlePause(t)
  BY <1>3, HandlePauseDebuggers
<1>4. CASE TimeOut(t) \/ ClearOne(t) \/ RunStep(t)
  BY <1>4, DebuggersLeft
<1> QED
  BY <1>1, <1>2, <1>3, <1>4 DEF StopStep

\* An update is applied to the current debugger, and to no other namespace than that
\* of its file.
LEMMA ThreadAppliesBreakpoints ==
    ASSUME Types, NEW t \in Threads, ThreadApplies(t)
    PROVE  /\ thr[t].apply \in Updates
           /\ \A r \in Runs :
                 /\ dbg'[r].force = dbg[r].force /\ dbg'[r].step = dbg[r].step
                 /\ \A n \in Namespaces :
                       n # NamespaceOf[thr[t].apply[1]] => dbg'[r].bps[n] = dbg[r].bps[n]
                 /\ r = adapter.debugger =>
                       dbg'[r].bps[NamespaceOf[thr[t].apply[1]]] = thr[t].apply[2]
                 /\ r # adapter.debugger => dbg'[r] = dbg[r]
<1>1. thr[t].apply \in Updates
  BY OneThread DEF ThreadApplies, ThreadStates
<1> QED
  BY <1>1, AppliedDebuggers DEF ThreadApplies

LEMMA ReaderAppliesBreakpoints ==
    ASSUME Types, ReaderApplies
    PROVE  /\ reader.apply \in Updates
           /\ \A r \in Runs :
                 /\ dbg'[r].force = dbg[r].force /\ dbg'[r].step = dbg[r].step
                 /\ \A n \in Namespaces :
                       n # NamespaceOf[reader.apply[1]] => dbg'[r].bps[n] = dbg[r].bps[n]
                 /\ r = adapter.debugger =>
                       dbg'[r].bps[NamespaceOf[reader.apply[1]]] = reader.apply[2]
                 /\ r # adapter.debugger => dbg'[r] = dbg[r]
<1>1. reader.apply \in Updates
  BY DEF ReaderApplies, Types
<1> QED
  BY <1>1, AppliedDebuggers DEF ReaderApplies

LEMMA LoopsStep == Types /\ Untouched /\ Loops /\ [Next]_vars => Loops'
<1> SUFFICES ASSUME Types, Untouched, Loops, [Next]_vars PROVE Loops'
  OBVIOUS
<1>0. DOMAIN breakpoints \subseteq DOMAIN breakpoints' /\ DOMAIN breakpoints \subseteq Paths
  BY BreakpointsStep DEF Types
<1>f. \A n \in Namespaces : FilesOf(n) # {} => FilesOf(n)' # {}
  BY <1>0, Zenon DEF FilesOf
<1>1. ASSUME reader'.at = "apply" => reader' = reader,
             \A t \in Threads : ThreadOnWay(t)',
             \A r \in Runs : dbg'[r].bps = dbg[r].bps
      PROVE  Loops'
  BY <1>0, <1>f, <1>1 DEF Loops, ThreadOnWay
\* An update of a file only touches the namespace of the file.
<1>g. ASSUME NEW p \in DOMAIN breakpoints,
             \A r \in Runs : \A n \in Namespaces : n # NamespaceOf[p] => dbg'[r].bps[n] = dbg[r].bps[n]
      PROVE  \A r \in Runs, n \in Namespaces : dbg'[r].bps[n] # {} => FilesOf(n)' # {}
  <2>1. FilesOf(NamespaceOf[p]) # {}
    BY DEF FilesOf
  <2> QED
    BY <1>f, <1>g, <2>1 DEF Loops
<1>2. ASSUME thr' = thr, NEW t \in Threads PROVE ThreadOnWay(t)'
  BY <1>0, <1>2, OnWay DEF ThreadOnWay
<1>3. CASE Aside
  BY <1>1, <1>2, <1>3 DEF Aside
<1>4. ASSUME NEW p \in Paths, NEW lines \in SUBSET Lines, SetBreakpoints(p, lines) PROVE Loops'
  <2>1. /\ reader' = [at |-> "apply", apply |-> <<p, lines>>] /\ thr' = thr /\ dbg' = dbg
        /\ p \in DOMAIN breakpoints'
    BY <1>4 DEF SetBreakpoints
  <2>2. reader'.apply[1] \in DOMAIN breakpoints'
    BY <2>1
  <2> QED
    BY <1>0, <1>f, <1>2, <2>1, <2>2 DEF Loops, ThreadOnWay
<1>5. CASE Pause
  BY <1>1, <1>2, <1>5, PauseDebuggers DEF Pause
<1>6. CASE ReaderApplies
  <2>1. reader' = Ready /\ thr' = thr /\ breakpoints' = breakpoints /\ Ready.at # "apply"
    BY <1>6 DEF ReaderApplies, Ready
  <2>2. reader.apply[1] \in DOMAIN breakpoints
    BY <1>6 DEF ReaderApplies, Loops
  <2>3. \A r \in Runs, n \in Namespaces : dbg'[r].bps[n] # {} => FilesOf(n)' # {}
    BY <1>6, <1>g, <2>2, ReaderAppliesBreakpoints
  <2> QED
    BY <1>2, <2>1, <2>3 DEF Loops, ThreadOnWay
<1>7. CASE Starts
  <2>1. PICK s \in Threads : Thread(s, "read", thr[s].left, thr[s].apply) /\ thr[s].at = "off"
    BY <1>7, StartRunThread DEF Starts
  <2>2. ThreadOnWay(s)'
    BY <2>1, OnWay DEF Thread, ThreadOnWay
  <2>3. breakpoints' = breakpoints /\ dbg' = dbg
    BY <1>7, StartsRun
  <2>4. \A t \in Threads : ThreadOnWay(t)'
    BY <2>1, <2>2, <2>3, OnWay DEF Thread, ThreadOnWay
  <2> QED
    BY <1>1, <1>7, <2>3, <2>4 DEF Starts
<1>8. ASSUME NEW t \in Threads, StopStep(t) \/ RunStep(t) PROVE Loops'
  <2>1. reader' = reader /\ DOMAIN breakpoints' = DOMAIN breakpoints
    BY <1>8, ThreadSession
  <2>2. ASSUME NEW u \in Threads PROVE ThreadOnWay(u)'
    <3>1. CASE u = t
      BY <1>8, <3>1, ThreadOnWayStep
    <3>2. CASE u # t
      BY <1>8, <2>1, <3>2, ThreadAlone, OnWay DEF ThreadOnWay
    <3> QED
      BY <3>1, <3>2
  <2>3. CASE ThreadApplies(t)
    <3>1. thr[t].apply[1] \in DOMAIN breakpoints
      BY <2>3 DEF ThreadApplies, Loops
    <3>2. \A r \in Runs, n \in Namespaces : dbg'[r].bps[n] # {} => FilesOf(n)' # {}
      BY <1>g, <2>3, <3>1, ThreadAppliesBreakpoints
    <3> QED
      BY <2>1, <2>2, <3>2 DEF Loops, ThreadOnWay
  <2>4. CASE ~ThreadApplies(t)
    BY <1>1, <1>8, <2>1, <2>2, <2>4, ThreadBreakpoints
  <2> QED
    BY <2>3, <2>4
<1> QED
  BY <1>3, <1>4, <1>5, <1>6, <1>7, <1>8, Steps
-----------------------------------------------------------------------------
\* Sessions without overlaps.

LEMMA OverlapStays == Types /\ [Next]_vars /\ past.overlap => past'.overlap
<1> SUFFICES ASSUME Types, [Next]_vars, past.overlap PROVE past'.overlap
  OBVIOUS
<1>0. past \in [expired : BOOLEAN, overlap : BOOLEAN, silence : {"no", "clearing", "calm"}]
  BY DEF Types
<1>1. CASE Aside
  BY <1>1 DEF Aside
<1>2. ASSUME NEW p, NEW lines, SetBreakpoints(p, lines) PROVE past'.overlap
  BY <1>0, <1>2 DEF SetBreakpoints
<1>3. CASE Pause
  BY <1>0, <1>3 DEF Pause, Talk
<1>4. CASE ReaderApplies
  BY <1>4 DEF ReaderApplies
<1>5. CASE Starts
  BY <1>5, StartsRun
<1>6. ASSUME NEW t \in Threads, StopStep(t) \/ RunStep(t) PROVE past'.overlap
  <2>1. CASE TimeOut(t)
    BY <1>0, <2>1 DEF TimeOut
  <2>2. CASE Cleared(t)
    BY <1>0, <2>2 DEF Cleared
  <2> QED
    BY <1>6, <2>1, <2>2 DEF StopStep, RunStep, HandlePause, TakeCommand, ClearOne, ThreadApplies,
       ReadProgram, SyncAll, SyncOne, Statement, SpawnTask, EndThread
<1> QED
  BY <1>1, <1>2, <1>3, <1>4, <1>5, <1>6, Steps

\* What a debugger has is passed on as long as the file is the same, or its update is
\* still to come.
LEMMA AgreeKept ==
    ASSUME Types, Agree, UNCHANGED adapter.debugger, DOMAIN breakpoints' = DOMAIN breakpoints,
           NEW f,
           \A r \in Runs, n \in Namespaces :
              r = adapter.debugger /\ (f \in DOMAIN breakpoints => n # NamespaceOf[f])
                 => dbg'[r].bps[n] = dbg[r].bps[n],
           \A p \in DOMAIN breakpoints :
              p # f => breakpoints'[p] = breakpoints[p] /\ (Pending(p) => Pending(p)'),
           f \in DOMAIN breakpoints =>
              \A r \in Runs : r = adapter.debugger => PassedOn(f, dbg[r].bps[NamespaceOf[f]])'
    PROVE  Agree'
<1>1. ASSUME NEW r \in Runs, NEW n \in Namespaces, r = adapter'.debugger, FilesOf(n)' # {}
      PROVE  \E p \in FilesOf(n)' : PassedOn(p, dbg[r].bps[n])'
  <2>1. FilesOf(n)' = FilesOf(n)
    BY Zenon DEF FilesOf
  <2>2. CASE f \in FilesOf(n)
    <3>1. f \in DOMAIN breakpoints /\ NamespaceOf[f] = n
      BY <2>2 DEF FilesOf
    <3> QED
      BY <1>1, <2>1, <2>2, <3>1
  <2>3. CASE f \notin FilesOf(n)
    <3>1. f \in DOMAIN breakpoints => n # NamespaceOf[f]
      BY <2>3 DEF FilesOf
    <3>2. dbg'[r].bps[n] = dbg[r].bps[n]
      BY <1>1, <3>1
    <3>3. PICK p \in FilesOf(n) : PassedOn(p, dbg[r].bps[n])
      BY <1>1, <2>1 DEF Agree
    <3>4. p # f /\ p \in DOMAIN breakpoints
      BY <2>3, <3>3 DEF FilesOf
    <3>5. PassedOn(p, dbg[r].bps[n])'
      BY <3>2, <3>3, <3>4 DEF PassedOn
    <3> QED
      BY <2>1, <3>5
  <2> QED
    BY <2>2, <2>3
<1> QED
  BY <1>1 DEF Agree

\* In particular when no file, no debugger and nothing that is to come changes.
LEMMA AgreeStays ==
    ASSUME Types, Agree, UNCHANGED <<adapter.debugger, breakpoints>>,
           \A r \in Runs : dbg'[r].bps = dbg[r].bps,
           \A p \in DOMAIN breakpoints : Pending(p) => Pending(p)'
    PROVE  Agree'
<1>1. PICK f : f \notin DOMAIN breakpoints
  BY NoSetContainsEverything
<1> QED
  BY <1>1, AgreeKept

LEMMA OrderlyAside == ASSUME Types, Orderly, Aside PROVE Orderly'
<1>1. OneRun'
  BY DEF Orderly, OneRun, Live, Aside
<1>2. UpdatesRight'
  BY DEF Orderly, UpdatesRight, Aside
<1>3. \A p : Pending(p) => Pending(p)'
  BY DEF Pending, OnItsWay, Aside
<1>4. Agree'
  BY <1>3, AgreeStays DEF Orderly, Aside
<1>5. ClearedSoFar'
  BY DEF Orderly, ClearedSoFar, Clear, Aside
<1> QED
  BY <1>1, <1>2, <1>4, <1>5 DEF Orderly

LEMMA OrderlySet ==
    ASSUME Types, Loops, Orderly, NEW p \in Paths, NEW lines \in SUBSET Lines,
           SetBreakpoints(p, lines), ~past'.overlap
    PROVE  Orderly'
<1>1. /\ thr' = thr /\ dbg' = dbg /\ adapter' = adapter
      /\ reader.at = "ready" /\ reader' = [at |-> "apply", apply |-> <<p, lines>>]
      /\ DOMAIN breakpoints' = DOMAIN breakpoints \cup {p} /\ breakpoints'[p] = lines
      /\ \A q \in DOMAIN breakpoints : q # p => breakpoints'[q] = breakpoints[q]
  BY DEF SetBreakpoints, Message
<1>2. reader'.at = "apply" /\ reader'.apply[1] = p /\ reader'.apply[2] = lines
  BY <1>1
<1>3. \A t \in Threads : thr[t].at \notin {"sync", "clearing"} /\ thr[t].apply = Nothing
  <2>1. past' = [past EXCEPT !.silence = "no",
                             !.overlap = past.overlap \/ At("sync") \cup At("clearing") # {}]
    BY DEF SetBreakpoints
  <2>2. past'.overlap = (past.overlap \/ At("sync") \cup At("clearing") # {})
    BY <2>1 DEF Types
  <2> QED
    BY <2>2 DEF At, Loops
<1>4. OneRun'
  BY <1>1, <1>3 DEF Orderly, OneRun, Live
<1>5. UpdatesRight'
  BY <1>1, <1>2, <1>3 DEF UpdatesRight
<1>6. \A q : Pending(q) => Pending(q)'
  BY <1>1 DEF Pending, OnItsWay
<1>7. Pending(p)'
  BY <1>2 DEF Pending
<1>8. ASSUME NEW r \in Runs, NEW n \in Namespaces, r = adapter'.debugger, FilesOf(n)' # {}
      PROVE  \E q \in FilesOf(n)' : PassedOn(q, dbg[r].bps[n])'
  <2>1. CASE NamespaceOf[p] = n
    <3>1. p \in FilesOf(n)'
      BY <1>1, <2>1, Zenon DEF FilesOf
    <3> QED
      BY <1>7, <3>1 DEF PassedOn
  <2>2. CASE NamespaceOf[p] # n
    <3>1. FilesOf(n)' = FilesOf(n)
      BY <1>1, <2>2 DEF FilesOf
    <3>2. PICK q \in FilesOf(n) : PassedOn(q, dbg[r].bps[n])
      BY <1>1, <1>8, <3>1 DEF Orderly, Agree
    <3>3. q # p /\ q \in DOMAIN breakpoints
      BY <2>2, <3>2 DEF FilesOf
    <3>4. PassedOn(q, dbg[r].bps[n])'
      BY <1>1, <1>6, <3>2, <3>3 DEF PassedOn
    <3> QED
      BY <3>1, <3>4
  <2> QED
    BY <2>1, <2>2
<1>9. ClearedSoFar'
  BY <1>1, <1>3 DEF ClearedSoFar
<1>10. Agree'
  BY <1>8 DEF Agree
<1> QED
  BY <1>4, <1>5, <1>9, <1>10 DEF Orderly

LEMMA OrderlyPause == ASSUME Types, Orderly, Pause PROVE Orderly'
<1>1. UNCHANGED <<adapter, breakpoints, reader, thr>> /\ \A r \in Runs : dbg'[r].bps = dbg[r].bps
  BY PauseDebuggers DEF Pause
<1>2. OneRun'
  BY <1>1 DEF Orderly, OneRun, Live
<1>3. UpdatesRight'
  BY <1>1 DEF Orderly, UpdatesRight
<1>4. \A p : Pending(p) => Pending(p)'
  BY <1>1 DEF Pending, OnItsWay
<1>5. Agree'
  BY <1>1, <1>4, AgreeStays DEF Orderly
<1>6. ClearedSoFar'
  BY <1>1 DEF Orderly, ClearedSoFar, Clear
<1> QED
  BY <1>2, <1>3, <1>5, <1>6 DEF Orderly

LEMMA OrderlyReader == ASSUME Types, Loops, Orderly, ReaderApplies PROVE Orderly'
<1>0. PICK f : f = reader.apply[1]
  OBVIOUS
<1>1. /\ UNCHANGED <<adapter, breakpoints, thr>> /\ reader.at = "apply" /\ reader'.at = "ready"
      /\ f \in DOMAIN breakpoints /\ reader.apply[2] = breakpoints[f]
  BY <1>0 DEF ReaderApplies, Ready, Loops, Orderly, UpdatesRight
<1>2. \A r \in Runs :
         /\ \A n \in Namespaces : n # NamespaceOf[f] => dbg'[r].bps[n] = dbg[r].bps[n]
         /\ r = adapter.debugger => dbg'[r].bps[NamespaceOf[f]] = breakpoints[f]
  BY <1>0, <1>1, ReaderAppliesBreakpoints
<1>3. OneRun'
  BY <1>1 DEF Orderly, OneRun, Live
<1>4. UpdatesRight'
  BY <1>1 DEF Orderly, UpdatesRight
<1>5. ASSUME NEW p, p # f, Pending(p) PROVE Pending(p)'
  BY <1>0, <1>1, <1>5 DEF Pending, OnItsWay
<1>p. \A r \in Runs : r = adapter.debugger => PassedOn(f, dbg[r].bps[NamespaceOf[f]])'
  BY <1>1, <1>2 DEF PassedOn
<1>6. Agree'
  BY <1>1, <1>2, <1>5, <1>p, AgreeKept DEF Orderly
<1>7. ClearedSoFar'
  BY <1>1 DEF Orderly, OneRun, ClearedSoFar
<1> QED
  BY <1>3, <1>4, <1>6, <1>7 DEF Orderly

LEMMA OrderlyStarts ==
    ASSUME Types, Loops, Orderly, Starts, ~past'.overlap PROVE Orderly'
<1>1. /\ UNCHANGED <<adapter, breakpoints, dbg>>
      /\ \A t \in Threads : ~Live(t)
      /\ reader' = reader \/ (reader.at # "apply" /\ reader'.at # "apply")
  BY StartsRun DEF Starts
<1>2. PICK s \in Threads : Thread(s, "read", thr[s].left, thr[s].apply) /\ thr[s].at = "off"
  BY StartRunThread DEF Starts
<1>3. thr[s].apply = Nothing /\ thr'[s].apply = Nothing /\ thr'[s].at = "read"
        /\ \A u \in Threads \ {s} : thr'[u] = thr[u]
  BY <1>2 DEF Loops, Thread
<1>4. \A t \in Threads : thr[t].at \in {"off", "ended", "dead"}
  BY <1>1 DEF Live
<1>5. OneRun'
  BY <1>1, <1>3, <1>4 DEF Orderly, OneRun, Live
<1>6. UpdatesRight'
  BY <1>1, <1>3 DEF Orderly, UpdatesRight
<1>7. \A p : Pending(p) => Pending(p)'
  BY <1>1, <1>2, <1>3 DEF Pending, OnItsWay
<1>8. Agree'
  BY <1>1, <1>7, AgreeStays DEF Orderly
<1>9. ClearedSoFar'
  BY <1>3, <1>4 DEF ClearedSoFar
<1> QED
  BY <1>5, <1>6, <1>8, <1>9 DEF Orderly

\* A thread that neither begins nor is in a loop over the files, or at its end,
\* moves on and passes nothing on.
LEMMA OrderlyMoves ==
    ASSUME Types, Orderly, NEW t \in Threads,
           thr[t].at \in {"run", "pausing", "waiting", "clearing"}, thr[t].apply = Nothing,
           NEW at \in {"run", "pausing", "waiting", "ended"}, Thread(t, at, thr[t].left, thr[t].apply),
           UNCHANGED <<adapter, breakpoints, reader>>, \A r \in Runs : dbg'[r].bps = dbg[r].bps
    PROVE  Orderly'
<1>1. /\ thr'[t].at = at /\ thr'[t].apply = Nothing /\ thr[t].apply = Nothing
      /\ \A u \in Threads \ {t} : thr'[u] = thr[u]
  BY DEF Thread
<1>2. OneRun'
  BY <1>1 DEF Orderly, OneRun, Live
<1>3. UpdatesRight'
  BY <1>1 DEF Orderly, UpdatesRight
<1>4. ASSUME NEW p, Pending(p) PROVE Pending(p)'
  BY <1>1, <1>4 DEF Pending, OnItsWay
<1>5. Agree'
  BY <1>4, AgreeStays DEF Orderly
<1>6. ClearedSoFar'
  BY <1>1 DEF Orderly, ClearedSoFar, Clear
<1> QED
  BY <1>2, <1>3, <1>5, <1>6 DEF Orderly

LEMMA OrderlyRun ==
    ASSUME Types, Loops, Orderly, NEW t \in Threads,
           \/ HandlePause(t) \/ TakeCommand(t) \/ Cleared(t) \/ EndThread(t)
           \/ \E loc \in Places, depth \in 0..MaxDepth : Statement(t, loc, depth)
    PROVE  Orderly'
<1>1. ASSUME ~ThreadApplies(t) /\ (StopStep(t) \/ RunStep(t)) PROVE \A r \in Runs : dbg'[r].bps = dbg[r].bps
  BY <1>1, ThreadBreakpoints
<1>2. thr[t].at \notin {"sync", "clearing"} => thr[t].apply = Nothing
  BY DEF Loops
<1>3. ASSUME NEW command \in Commands, GoOn(t, command), thr[t].at \in {"waiting", "clearing"}
      PROVE  \A r \in Runs : dbg'[r].bps = dbg[r].bps
  BY <1>3, GoOnDebuggers
<1>4. CASE HandlePause(t)
  <2>1. /\ thr[t].at = "pausing" /\ UNCHANGED <<adapter, breakpoints, reader>>
        /\ Thread(t, "waiting", thr[t].left, thr[t].apply)
        /\ \A r \in Runs : dbg'[r].bps = dbg[r].bps
    BY <1>4, HandlePauseThread, HandlePauseDebuggers DEF HandlePause
  <2> QED
    BY <1>2, <2>1, OrderlyMoves
<1>5. CASE TakeCommand(t)
  <2>1. /\ thr[t].at = "waiting" /\ UNCHANGED <<adapter, breakpoints, reader>>
        /\ GoOn(t, Head(queue)) /\ Head(queue) \in Commands
    BY <1>5 DEF TakeCommand, Types
  <2>2. Thread(t, "run", thr[t].left, thr[t].apply)
    BY <2>1, GoOnThread
  <2> QED
    BY <1>2, <1>3, <2>1, <2>2, OrderlyMoves
<1>6. CASE Cleared(t)
  <2>1. /\ thr[t].at = "clearing" /\ UNCHANGED <<adapter, breakpoints, reader>>
        /\ GoOn(t, "continue") /\ "continue" \in Commands /\ thr[t].apply = Nothing
    BY <1>6 DEF Cleared, Commands
  <2>2. Thread(t, "run", thr[t].left, thr[t].apply)
    BY <2>1, GoOnThread
  <2> QED
    BY <1>3, <2>1, <2>2, OrderlyMoves
<1>7. CASE EndThread(t)
  <2>1. thr[t].at = "run" /\ UNCHANGED <<adapter, breakpoints, reader, dbg>>
    BY <1>7 DEF EndThread
  <2>2. Thread(t, "ended", thr[t].left, thr[t].apply)
    BY <1>7, EndThreadThread
  <2> QED
    BY <1>2, <2>1, <2>2, OrderlyMoves
<1>8. ASSUME NEW loc \in Places, NEW depth \in 0..MaxDepth, Statement(t, loc, depth) PROVE Orderly'
  <2>1. thr[t].at = "run" /\ UNCHANGED <<adapter, breakpoints, reader, dbg>>
    BY <1>8 DEF Statement
  <2>2. Thread(t, "pausing", thr[t].left, thr[t].apply)
    BY <1>8, StatementThread
  <2> QED
    BY <1>2, <2>1, <2>2, OrderlyMoves
<1> QED
  BY <1>4, <1>5, <1>6, <1>7, <1>8

LEMMA OrderlySpawn ==
    ASSUME Types, Loops, Orderly, NEW t \in Threads, SpawnTask(t) PROVE Orderly'
<1>1. /\ UNCHANGED <<adapter, breakpoints, dbg, reader>> /\ thr[t].at = "off"
      /\ \E u \in Threads : thr[u].at = "run" /\ u[1] = t[1]
  BY DEF SpawnTask, At
<1>2. Thread(t, "run", thr[t].left, thr[t].apply)
  BY SpawnTaskThread
<1>3. /\ thr[t].apply = Nothing /\ thr'[t].apply = Nothing /\ thr'[t].at = "run"
      /\ \A u \in Threads \ {t} : thr'[u] = thr[u]
  BY <1>1, <1>2 DEF Loops, Thread
<1>4. PICK u \in Threads : thr[u].at = "run" /\ u[1] = t[1]
  BY <1>1
<1>5. \A v \in Threads : thr[v].at \notin {"read", "made", "sync"}
  BY <1>4 DEF Orderly, OneRun, Live
<1>6. t[1] = adapter.debugger
  BY <1>4 DEF Orderly, OneRun, Live
<1>7. OneRun'
  BY <1>1, <1>3, <1>5, <1>6 DEF Orderly, OneRun, Live
<1>8. UpdatesRight'
  BY <1>1, <1>3 DEF Orderly, UpdatesRight
<1>9. ASSUME NEW p, Pending(p) PROVE Pending(p)'
  BY <1>1, <1>3, <1>9 DEF Pending, OnItsWay
<1>10. Agree'
  BY <1>1, <1>9, AgreeStays DEF Orderly
<1>11. ClearedSoFar'
  BY <1>1, <1>3 DEF Orderly, ClearedSoFar, Clear
<1> QED
  BY <1>7, <1>8, <1>10, <1>11 DEF Orderly

LEMMA OrderlyTimeOut ==
    ASSUME Types, Loops, Orderly, NEW t \in Threads, TimeOut(t), ~past'.overlap PROVE Orderly'
<1>1. /\ UNCHANGED <<adapter, breakpoints, dbg, reader>> /\ thr[t].at = "waiting"
      /\ reader.at # "apply"
  BY DEF TimeOut, Types
<1>2. Thread(t, "clearing", DOMAIN breakpoints, thr[t].apply)
  BY TimeOutThread
<1>3. /\ thr[t].apply = Nothing /\ thr'[t].apply = Nothing /\ thr'[t].at = "clearing"
      /\ thr'[t].left = DOMAIN breakpoints
      /\ \A u \in Threads \ {t} : thr'[u] = thr[u]
  BY <1>1, <1>2 DEF Loops, Thread
<1>4. OneRun'
  BY <1>1, <1>3 DEF Orderly, OneRun, Live
<1>5. UpdatesRight'
  BY <1>1, <1>3 DEF Orderly, UpdatesRight
<1>6. ASSUME NEW p, Pending(p) PROVE Pending(p)'
  BY <1>1, <1>3, <1>6 DEF Pending, OnItsWay
<1>7. Agree'
  BY <1>1, <1>6, AgreeStays DEF Orderly
<1>8. ClearedSoFar'
  BY <1>1, <1>3 DEF Orderly, ClearedSoFar, Clear
<1> QED
  BY <1>4, <1>5, <1>7, <1>8 DEF Orderly

LEMMA OrderlyRead == ASSUME Types, Loops, Orderly, NEW t \in Threads, ReadProgram(t) PROVE Orderly'
<1>1. /\ UNCHANGED <<breakpoints, dbg, reader>> /\ thr[t].at = "read"
      /\ \A u \in Threads : Live(u) => u = t
  BY DEF ReadProgram, Orderly, OneRun, Live
<1>2. /\ thr[t].apply = Nothing /\ thr'[t].apply = Nothing
      /\ \A u \in Threads \ {t} : thr'[u] = thr[u]
      /\ \A u \in Threads \ {t} : thr[u].at \in {"off", "ended", "dead"}
  BY <1>1, ReadProgramThread DEF Loops, Thread, Live
<1>3. \/ adapter' = adapter /\ thr'[t].at = "ended"
      \/ adapter'.debugger = t[1] /\ thr'[t].at = "made"
  <2>1. thr[t] \in ThreadStates(DOMAIN breakpoints) /\ adapter \in Flags
    BY OneThread DEF Types
  <2>2. \/ adapter' = adapter /\ thr' = [thr EXCEPT ![t].at = "ended"]
        \/ adapter' = [adapter EXCEPT !.debugger = t[1]] /\ thr' = [thr EXCEPT ![t].at = "made"]
    BY DEF ReadProgram
  <2>3. adapter' = [adapter EXCEPT !.debugger = t[1]] => adapter'.debugger = t[1]
    BY <2>1 DEF Flags
  <2>4. \A at : thr' = [thr EXCEPT ![t].at = at] => thr'[t].at = at
    BY DEF Types, ThreadStates
  <2> QED
    BY <2>2, <2>3, <2>4
<1>4. OneRun'
  BY <1>1, <1>2, <1>3 DEF Orderly, OneRun, Live
<1>5. UpdatesRight'
  BY <1>1, <1>2 DEF Orderly, UpdatesRight
<1>6. Agree'
  <2>1. CASE thr'[t].at = "made"
    BY <2>1 DEF Agree, PassedOn, Pending, OnItsWay
  <2>2. CASE adapter' = adapter
    <3>1. ASSUME NEW p, Pending(p) PROVE Pending(p)'
      BY <1>1, <1>2, <3>1 DEF Pending, OnItsWay
    <3> QED
      BY <1>1, <2>2, <3>1, AgreeStays DEF Orderly
  <2> QED
    BY <1>3, <2>1, <2>2
<1>7. ClearedSoFar'
  BY <1>2, <1>3 DEF ClearedSoFar
<1> QED
  BY <1>4, <1>5, <1>6, <1>7 DEF Orderly

LEMMA OrderlySyncAll == ASSUME Types, Loops, Orderly, NEW t \in Threads, SyncAll(t) PROVE Orderly'
<1>1. /\ UNCHANGED <<adapter, breakpoints, dbg, reader>> /\ thr[t].at = "made"
      /\ \A u \in Threads : Live(u) => u = t
  BY DEF SyncAll, Orderly, OneRun, Live
<1>2. /\ thr[t].apply = Nothing /\ thr'[t].apply = Nothing /\ thr'[t].at = "sync"
      /\ thr'[t].left = DOMAIN breakpoints /\ thr'[t].size = Cardinality(DOMAIN breakpoints)
      /\ \A u \in Threads \ {t} : thr'[u] = thr[u]
      /\ \A u \in Threads \ {t} : thr[u].at \in {"off", "ended", "dead"}
  BY <1>1, SyncAllThread DEF Loops, Thread, Live
<1>3. OneRun'
  BY <1>1, <1>2 DEF Orderly, OneRun, Live
<1>4. UpdatesRight'
  BY <1>1, <1>2 DEF Orderly, UpdatesRight
<1>5. Agree'
  BY <1>1, <1>2 DEF Agree, PassedOn, FilesOf, Pending, OnItsWay
<1>6. ClearedSoFar'
  BY <1>2 DEF ClearedSoFar
<1> QED
  BY <1>3, <1>4, <1>5, <1>6 DEF Orderly

\* The dictionary of the files has not grown, so the loop does not fail.
LEMMA OrderlySyncOne == ASSUME Types, Loops, Orderly, NEW t \in Threads, SyncOne(t) PROVE Orderly'
<1>1. /\ UNCHANGED <<adapter, breakpoints, dbg, reader>> /\ thr[t].at = "sync" /\ thr[t].apply = Nothing
      /\ \A u \in Threads : Live(u) => u = t
      /\ thr[t].size = Cardinality(DOMAIN breakpoints)
  BY DEF SyncOne, Orderly, OneRun, Live
<1>2. /\ \A u \in Threads \ {t} : thr'[u] = thr[u]
      /\ \A u \in Threads \ {t} : thr[u].at \in {"off", "ended", "dead"}
      /\ \A u \in Threads \ {t} : thr[u].apply = Nothing
      /\ \/ thr[t].left = {} /\ thr'[t].at = "run" /\ thr'[t].apply = Nothing
         \/ \E p \in thr[t].left :
               /\ thr'[t].at = "sync" /\ thr'[t].left = thr[t].left \ {p}
               /\ thr'[t].apply = <<p, breakpoints[p]>> /\ thr'[t].size = thr[t].size
  BY <1>1, SyncOneThread DEF Loops, Thread, Live
<1>3. OneRun'
  BY <1>1, <1>2 DEF Orderly, OneRun, Live
<1>4. UpdatesRight'
  BY <1>1, <1>2 DEF Orderly, UpdatesRight
<1>5. ASSUME NEW p, Pending(p) PROVE Pending(p)'
  <2>1. CASE reader.at = "apply" /\ reader.apply[1] = p
    BY <1>1, <2>1 DEF Pending
  <2>2. CASE OnItsWay(t, p)
    <3>1. p \in thr[t].left
      BY <1>1, <2>2 DEF OnItsWay
    <3>2. PICK q \in thr[t].left : /\ thr'[t].at = "sync" /\ thr'[t].left = thr[t].left \ {q}
                                   /\ thr'[t].apply = <<q, breakpoints[q]>>
      BY <1>2, <3>1
    <3>3. <<q, breakpoints[q]>> # Nothing /\ <<q, breakpoints[q]>>[1] = q
      BY DEF Nothing
    <3> QED
      BY <3>1, <3>2, <3>3 DEF Pending, OnItsWay
  <2>3. ASSUME NEW u \in Threads \ {t}, OnItsWay(u, p) PROVE FALSE
    BY <1>2, <2>3 DEF OnItsWay
  <2> QED
    BY <1>5, <2>1, <2>2, <2>3 DEF Pending
<1>6. Agree'
  BY <1>1, <1>5, AgreeStays DEF Orderly
<1>7. ClearedSoFar'
  BY <1>2 DEF ClearedSoFar
<1> QED
  BY <1>3, <1>4, <1>6, <1>7 DEF Orderly

LEMMA OrderlyThreadApplies ==
    ASSUME Types, Loops, Orderly, NEW t \in Threads, ThreadApplies(t) PROVE Orderly'
<1>0. PICK f : f = thr[t].apply[1]
  OBVIOUS
<1>1. /\ UNCHANGED <<adapter, breakpoints, reader>>
      /\ thr[t].at \in {"sync", "clearing"} /\ thr[t].apply # Nothing
      /\ f \in DOMAIN breakpoints /\ thr[t].apply[2] = breakpoints[f]
      /\ thr[t].at = "clearing" => breakpoints[f] = {}
  BY <1>0 DEF ThreadApplies, Loops, Orderly, UpdatesRight
<1>2. \A r \in Runs :
         /\ \A n \in Namespaces : n # NamespaceOf[f] => dbg'[r].bps[n] = dbg[r].bps[n]
         /\ r = adapter.debugger => dbg'[r].bps[NamespaceOf[f]] = breakpoints[f]
  BY <1>0, <1>1, ThreadAppliesBreakpoints
<1>3. /\ \A u \in Threads \ {t} : thr'[u] = thr[u]
      /\ thr'[t].at = thr[t].at /\ thr'[t].left = thr[t].left /\ thr'[t].apply = Nothing
      /\ thr'[t].size = thr[t].size
  BY ThreadAppliesThread DEF Thread
<1>4. OneRun'
  BY <1>1, <1>3 DEF Orderly, OneRun, Live
<1>5. UpdatesRight'
  BY <1>1, <1>3 DEF Orderly, UpdatesRight
<1>6. ASSUME NEW p, p # f, Pending(p) PROVE Pending(p)'
  <2>1. \A u \in Threads : OnItsWay(u, p) => OnItsWay(u, p)'
    BY <1>0, <1>1, <1>3, <1>6 DEF OnItsWay
  <2> QED
    BY <1>1, <1>6, <2>1 DEF Pending
<1>p. \A r \in Runs : r = adapter.debugger => PassedOn(f, dbg[r].bps[NamespaceOf[f]])'
  BY <1>1, <1>2 DEF PassedOn
<1>7. Agree'
  BY <1>1, <1>2, <1>6, <1>p, AgreeKept DEF Orderly
<1>8. ASSUME NEW u \in Threads, thr'[u].at = "clearing", NEW p \in DOMAIN breakpoints
      PROVE  \/ p \in thr'[u].left
             \/ thr'[u].apply # Nothing /\ thr'[u].apply[1] = p
             \/ Clear(p)'
  <2>1. thr[u].at = "clearing" /\ thr'[u].left = thr[u].left
    BY <1>3, <1>8
  <2>2. Live(t) /\ Live(u)
    BY <1>1, <2>1 DEF Live
  <2>3. thr[t].at = "clearing"
    BY <1>1, <2>1, <2>2 DEF Orderly, OneRun
  <2>4. CASE p = f
    BY <1>1, <1>2, <2>3, <2>4 DEF Clear
  <2>5. CASE p # f
    <3>1. Clear(p) => Clear(p)'
      <4>1. NamespaceOf[p] \in Namespaces
        BY DebugAssumption DEF Types
      <4>2. ASSUME NEW r \in Runs, r = adapter.debugger, dbg[r].bps[NamespaceOf[p]] = {}
            PROVE  dbg'[r].bps[NamespaceOf[p]] = {}
        <5>1. CASE NamespaceOf[p] = NamespaceOf[f]
          BY <1>1, <1>2, <2>3, <4>2, <5>1
        <5>2. CASE NamespaceOf[p] # NamespaceOf[f]
          BY <1>2, <4>1, <4>2, <5>2
        <5> QED
          BY <5>1, <5>2
      <4> QED
        BY <1>1, <4>2 DEF Clear
    <3>2. \/ p \in thr[u].left
          \/ thr[u].apply # Nothing /\ thr[u].apply[1] = p
          \/ Clear(p)
      BY <2>1 DEF Orderly, ClearedSoFar
    <3> QED
      BY <1>0, <1>3, <2>1, <2>5, <3>1, <3>2
  <2> QED
    BY <2>4, <2>5
<1>9. ClearedSoFar'
  BY <1>1, <1>8 DEF ClearedSoFar
<1> QED
  BY <1>4, <1>5, <1>7, <1>9 DEF Orderly

LEMMA OrderlyClearOne ==
    ASSUME Types, Loops, Orderly, NEW t \in Threads, ClearOne(t) PROVE Orderly'
<1>1. UNCHANGED <<adapter, dbg, reader>> /\ thr[t].at = "clearing" /\ thr[t].apply = Nothing
  BY DEF ClearOne
<1>2. PICK f \in thr[t].left : /\ breakpoints' = [breakpoints EXCEPT ![f] = {}]
                               /\ Thread(t, "clearing", thr[t].left \ {f}, <<f, {}>>)
  BY ClearOneThread
<1>3. /\ f \in DOMAIN breakpoints /\ DOMAIN breakpoints' = DOMAIN breakpoints /\ breakpoints'[f] = {}
      /\ \A p \in DOMAIN breakpoints : p # f => breakpoints'[p] = breakpoints[p]
  BY <1>2, OneThread DEF ThreadStates
<1>4. /\ \A u \in Threads \ {t} : thr'[u] = thr[u]
      /\ thr'[t].at = "clearing" /\ thr'[t].left = thr[t].left \ {f} /\ thr'[t].apply = <<f, {}>>
      /\ <<f, {}>> # Nothing /\ <<f, {}>>[1] = f /\ <<f, {}>>[2] = {}
  BY <1>2 DEF Thread, Nothing
<1>5. reader.at # "apply" /\ \A u \in Threads : thr[u].at \notin {"read", "made", "sync"}
  BY <1>1 DEF Orderly, OneRun, Live
<1>6. OneRun'
  BY <1>1, <1>3, <1>4, <1>5 DEF Orderly, OneRun, Live
<1>7. ASSUME NEW u \in Threads, thr'[u].apply # Nothing
      PROVE  thr'[u].apply[2] = breakpoints'[thr'[u].apply[1]]
  <2>1. CASE u = t
    BY <1>3, <1>4, <2>1
  <2>2. CASE u # t
    <3>1. thr'[u] = thr[u] /\ thr[u].apply[2] = {} /\ thr[u].apply[1] \in DOMAIN breakpoints
      BY <1>4, <1>5, <1>7, <2>2 DEF Loops
    <3>2. breakpoints[thr[u].apply[1]] = {}
      BY <1>7, <3>1 DEF Orderly, UpdatesRight
    <3> QED
      BY <1>3, <3>1, <3>2
  <2> QED
    BY <2>1, <2>2
<1>8. UpdatesRight'
  BY <1>1, <1>5, <1>7 DEF UpdatesRight
<1>9. ASSUME NEW p, Pending(p) PROVE Pending(p)'
  <2>1. \A u \in Threads : OnItsWay(u, p) => OnItsWay(u, p)'
    BY <1>1, <1>4, <1>9 DEF OnItsWay
  <2> QED
    BY <1>1, <1>9, <2>1 DEF Pending
<1>p. Pending(f)'
  BY <1>4 DEF Pending, OnItsWay
<1>10. Agree'
  BY <1>1, <1>3, <1>9, <1>p, AgreeKept DEF Orderly, PassedOn
<1>11. \A p \in DOMAIN breakpoints : Clear(p) => Clear(p)'
  BY <1>1, <1>3 DEF Clear
<1>12. ASSUME NEW u \in Threads, thr'[u].at = "clearing", NEW p \in DOMAIN breakpoints
       PROVE  \/ p \in thr'[u].left
              \/ thr'[u].apply # Nothing /\ thr'[u].apply[1] = p
              \/ Clear(p)'
  <2>1. CASE u = t
    BY <1>1, <1>4, <1>11, <2>1 DEF Orderly, ClearedSoFar
  <2>2. CASE u # t
    BY <1>4, <1>11, <1>12, <2>2 DEF Orderly, ClearedSoFar
  <2> QED
    BY <2>1, <2>2
<1>13. ClearedSoFar'
  BY <1>3, <1>12 DEF ClearedSoFar
<1> QED
  BY <1>6, <1>8, <1>10, <1>13 DEF Orderly

LEMMA ApartStep == Types /\ Loops /\ Apart /\ [Next]_vars => Apart'
<1> SUFFICES ASSUME Types, Loops, Apart, [Next]_vars, ~past'.overlap PROVE Orderly'
  BY DEF Apart
<1>1. Orderly
  BY OverlapStays DEF Apart
<1>2. ASSUME NEW t \in Threads, StopStep(t) \/ RunStep(t) PROVE Orderly'
  BY <1>1, <1>2, OrderlyRun, OrderlySpawn, OrderlyTimeOut, OrderlyRead, OrderlySyncAll,
     OrderlySyncOne, OrderlyThreadApplies, OrderlyClearOne DEF StopStep, RunStep
<1> QED
  BY <1>1, <1>2, OrderlyAside, OrderlySet, OrderlyPause, OrderlyReader, OrderlyStarts, Steps
-----------------------------------------------------------------------------
\* After a timeout, while the client is silent.

LEMMA SilentStep == Types /\ Silent /\ [Next]_vars => Silent'
<1> SUFFICES ASSUME Types, Silent, [Next]_vars PROVE Silent'
  OBVIOUS
<1>0. past \in [expired : BOOLEAN, overlap : BOOLEAN, silence : {"no", "clearing", "calm"}]
  BY DEF Types
<1>1. CASE Aside
  BY <1>1 DEF Aside, Silent
<1>2. ASSUME NEW p, NEW lines, SetBreakpoints(p, lines) PROVE Silent'
  BY <1>0, <1>2 DEF SetBreakpoints, Silent
<1>3. CASE Pause
  BY <1>0, <1>3 DEF Pause, Talk, Silent
<1>4. CASE ReaderApplies
  BY <1>4 DEF ReaderApplies, Ready, Silent
<1>5. CASE Starts
  <2>1. UNCHANGED queue /\ past'.silence = past.silence
    BY <1>5, StartsRun
  <2> QED
    BY <1>5, <2>1 DEF Starts, Silent
<1>6. ASSUME NEW t \in Threads, StopStep(t) \/ RunStep(t) PROVE Silent'
  <2>1. CASE TakeCommand(t)
    BY <2>1 DEF TakeCommand, Silent
  <2>2. CASE TimeOut(t)
    <3>1. queue' = <<>> /\ reader' = reader
      BY <2>2 DEF TimeOut
    <3>2. reader.at = "apply" => past'.silence = "no"
      BY <1>0, <2>2 DEF TimeOut
    <3> QED
      BY <3>1, <3>2 DEF Silent
  <2>3. CASE Cleared(t)
    <3>1. past.silence = "no" => past'.silence = "no"
      BY <1>0, <2>3 DEF Cleared
    <3> QED
      BY <2>3, <3>1 DEF Cleared, Silent
  <2>4. CASE UNCHANGED <<queue, reader, past>>
    BY <2>4 DEF Silent
  <2> QED
    BY <1>6, <2>1, <2>2, <2>3, <2>4 DEF StopStep, RunStep, HandlePause, ClearOne, ThreadApplies,
       ReadProgram, SyncAll, SyncOne, Statement, SpawnTask, EndThread
<1> QED
  BY <1>1, <1>2, <1>3, <1>4, <1>5, <1>6, Steps

\* A debugger that does not stop the program stops at no statement.
LEMMA QuietRuns == ASSUME NEW d, Quiet(d), NEW loc \in Places, NEW depth \in 0..MaxDepth
                   PROVE  ~ShouldPause(d, loc, depth)
<1>1. loc[1] \in Namespaces
  BY DEF Places
<1>2. ~(depth <= NoStep)
  BY DebugAssumption DEF NoStep
<1> QED
  BY <1>1, <1>2 DEF Quiet, ShouldPause

\* While all is calm, no step of a thread gives a debugger a reason to stop.
LEMMA ThreadStaysQuiet ==
    ASSUME Types, Loops, Silent, Calm, past.silence = "calm",
           NEW t \in Threads, StopStep(t) \/ RunStep(t), NEW r \in Runs, Quiet(dbg[r])
    PROVE  Quiet(dbg'[r])
<1>1. CASE ThreadApplies(t)
  <2>1. thr[t].apply[2] = {}
    BY <1>1 DEF ThreadApplies, Calm
  <2> QED
    BY <1>1, <2>1, ThreadAppliesBreakpoints DEF Quiet
<1>2. CASE TakeCommand(t)
  BY <1>2 DEF TakeCommand, Silent
<1>3. CASE Cleared(t)
  <2>1. GoOn(t, "continue") /\ "continue" \in Commands /\ thr[t].at = "clearing"
    BY <1>3 DEF Cleared, Commands
  <2>2. dbg'[r].bps = dbg[r].bps /\ dbg'[r].force = dbg[r].force
          /\ (dbg'[r] = dbg[r] \/ dbg'[r].step = NoStep)
    BY <2>1, GoOnDebuggers
  <2> QED
    BY <2>2 DEF Quiet
<1>4. CASE HandlePause(t)
  BY <1>4, HandlePauseDebuggers DEF Quiet
<1>5. CASE TimeOut(t) \/ ClearOne(t) \/ RunStep(t)
  BY <1>5, DebuggersLeft
<1> QED
  BY <1>1, <1>2, <1>3, <1>4, <1>5 DEF StopStep

\* Nor does it come by something to pass on but that there are no breakpoints.
LEMMA ThreadStaysClear ==
    ASSUME Types, Loops, Calm, past.silence = "calm",
           NEW t \in Threads, StopStep(t) \/ RunStep(t)
    PROVE  /\ \A p \in DOMAIN breakpoints' : breakpoints'[p] = {}
           /\ thr'[t].apply # Nothing => thr'[t].apply[2] = {}
<1>0. DOMAIN breakpoints' = DOMAIN breakpoints
  BY ThreadSession
<1>1. CASE ClearOne(t)
  <2>1. PICK f \in thr[t].left : /\ breakpoints' = [breakpoints EXCEPT ![f] = {}]
                                 /\ Thread(t, "clearing", thr[t].left \ {f}, <<f, {}>>)
    BY <1>1, ClearOneThread
  <2>2. \A p \in DOMAIN breakpoints : breakpoints'[p] \in {{}, breakpoints[p]}
    BY <2>1
  <2> QED
    BY <1>0, <2>1, <2>2 DEF Calm, Thread
<1>2. CASE ~ClearOne(t)
  <2>1. breakpoints' = breakpoints
    BY <1>2 DEF StopStep, RunStep, HandlePause, TakeCommand, TimeOut, Cleared, ThreadApplies,
       ReadProgram, SyncAll, SyncOne, Statement, SpawnTask, EndThread
  <2>2. CASE SyncOne(t)
    <3>1. \A p \in thr[t].left : p \in DOMAIN breakpoints
      BY OneThread DEF ThreadStates
    <3>2. /\ \E at, left, apply : Thread(t, at, left, apply) /\ thr'[t].apply = apply
          /\ \/ thr'[t].apply = thr[t].apply
             \/ \E p \in thr[t].left : thr'[t].apply = <<p, breakpoints[p]>>
      BY <2>2, SyncOneThread DEF Thread
    <3>3. thr'[t].apply = thr[t].apply => (thr'[t].apply # Nothing => thr'[t].apply[2] = {})
      BY DEF Calm
    <3>4. ASSUME NEW p \in thr[t].left, thr'[t].apply = <<p, breakpoints[p]>>
          PROVE  thr'[t].apply[2] = {}
      BY <3>1, <3>4 DEF Calm
    <3> QED
      BY <2>1, <3>2, <3>3, <3>4 DEF Calm
  <2>3. ASSUME NEW command, GoOn(t, command) PROVE thr'[t].apply = thr[t].apply
    BY <2>1, <2>3, GoOnThread DEF Thread
  <2>4. CASE ~SyncOne(t)
    <3>1. thr'[t].apply \in {thr[t].apply, Nothing}
      <4>1. CASE TakeCommand(t) \/ Cleared(t)
        BY <2>3, <4>1 DEF TakeCommand, Cleared
      <4>2. CASE StopStep(t)
        BY <1>2, <4>1, <4>2, HandlePauseThread, TimeOutThread, ThreadAppliesThread DEF StopStep, Thread
      <4>3. CASE RunStep(t)
        BY <2>4, <4>3, ReadProgramThread, SyncAllThread, StatementThread, SpawnTaskThread,
           EndThreadThread DEF RunStep, Thread
      <4> QED
        BY <4>2, <4>3
    <3> QED
      BY <2>1, <3>1 DEF Calm
  <2> QED
    BY <2>2, <2>4
<1> QED
  BY <1>1, <1>2

\* A thread that runs after its step ran before, or shares the run of one that did.
LEMMA ThreadRuns ==
    ASSUME Types, Loops, NEW t \in Threads, StopStep(t) \/ RunStep(t)
    PROVE  \E u \in Threads : Live(u) /\ u[1] = t[1]
<1>1. CASE SpawnTask(t)
  BY <1>1 DEF SpawnTask, At, Live
<1>2. CASE ThreadApplies(t)
  BY <1>2 DEF ThreadApplies, Loops, Live
<1>3. thr[t].at \in {"read", "made", "sync", "run", "pausing", "waiting", "clearing"}
        \/ SpawnTask(t) \/ ThreadApplies(t)
  BY DEF StopStep, RunStep, HandlePause, TakeCommand, TimeOut, Cleared, ClearOne,
     ReadProgram, SyncAll, SyncOne, Statement, EndThread
<1> QED
  BY <1>1, <1>2, <1>3 DEF Live

\* The last file is cleared, and nothing overlapped: all is calm.
LEMMA BecomesCalm ==
    ASSUME Types, Loops, Orderly, NEW t \in Threads, Cleared(t), ~dbg[t[1]].force
    PROVE  Calm'
<1>1. /\ thr[t].at = "clearing" /\ thr[t].apply = Nothing /\ thr[t].left = {}
      /\ GoOn(t, "continue") /\ "continue" \in Commands
      /\ UNCHANGED <<adapter, breakpoints>>
  BY DEF Cleared, Commands
<1>2. Thread(t, "run", thr[t].left, thr[t].apply)
  BY <1>1, GoOnThread
<1>3. /\ t[1] \in Runs /\ t[1] = adapter.debugger
      /\ \A u \in Threads : Live(u) => u[1] = t[1] /\ thr[u].at # "sync"
  BY <1>1, DebugAssumption DEF Orderly, OneRun, Live
<1>4. \A p \in DOMAIN breakpoints : Clear(p)
  BY <1>1 DEF Orderly, ClearedSoFar
<1>5. Quiet(dbg'[t[1]])
  <2>1. ASSUME NEW n \in Namespaces PROVE dbg[t[1]].bps[n] = {}
    <3>1. \A p \in FilesOf(n) : dbg[t[1]].bps[n] = {}
      BY <1>3, <1>4 DEF Clear, FilesOf
    <3>2. dbg[t[1]].bps[n] # {} => FilesOf(n) # {}
      BY <1>3 DEF Loops
    <3> QED
      BY <3>1, <3>2
  <2>2. dbg'[t[1]].bps = dbg[t[1]].bps /\ dbg'[t[1]].force = dbg[t[1]].force /\ dbg'[t[1]].step = NoStep
    BY <1>1, <1>3, GoOnDebuggers
  <2> QED
    BY <2>1, <2>2 DEF Quiet
<1>6. \A u \in Threads : Live(u)' => u[1] = t[1]
  BY <1>2, <1>3 DEF Live, Thread
<1>7. ASSUME NEW u \in Threads, thr'[u].apply # Nothing PROVE thr'[u].apply[2] = {}
  <2>1. thr'[u] = thr[u] /\ thr[u].apply # Nothing
    BY <1>1, <1>2, <1>7 DEF Thread
  <2>2. thr[u].at = "clearing"
    BY <1>3, <2>1 DEF Loops, Live
  <2> QED
    BY <2>1, <2>2 DEF Loops
<1>8. \A p \in DOMAIN breakpoints' : breakpoints'[p] = {}
  BY <1>1, <1>4 DEF Clear
<1> QED
  BY <1>5, <1>6, <1>7, <1>8 DEF Calm

LEMMA CalmStep ==
    Types /\ Untouched /\ Loops /\ Apart /\ Silent /\ Calm /\ [Next]_vars => Calm'
<1> SUFFICES ASSUME Types, Untouched, Loops, Apart, Silent, Calm, [Next]_vars PROVE Calm'
  OBVIOUS
<1>0. past \in [expired : BOOLEAN, overlap : BOOLEAN, silence : {"no", "clearing", "calm"}]
  BY DEF Types
<1>1. CASE Aside
  BY <1>1 DEF Aside, Calm, Live
<1>2. ASSUME NEW p, NEW lines, SetBreakpoints(p, lines) PROVE Calm'
  BY <1>0, <1>2 DEF SetBreakpoints, Calm
<1>3. CASE Pause
  BY <1>0, <1>3 DEF Pause, Talk, Calm
<1>4. CASE ReaderApplies
  BY <1>4 DEF ReaderApplies, Silent, Calm
<1>5. CASE Starts
  <2>1. PICK s \in Threads : /\ s[1] = adapter.thread /\ s = Program(adapter.thread)
                             /\ Thread(s, "read", thr[s].left, thr[s].apply) /\ thr[s].at = "off"
    BY <1>5, StartRunThread DEF Starts
  <2>2. thr'[s].apply = Nothing /\ \A u \in Threads \ {s} : thr'[u] = thr[u]
    BY <2>1 DEF Thread, Loops
  <2>3. UNCHANGED <<breakpoints, dbg>> /\ past'.silence = past.silence
    BY <1>5, StartsRun
  <2>4. Quiet(dbg[s[1]])
    BY <2>1, DebugAssumption DEF Begun, Untouched
  <2> QED
    BY <2>2, <2>3, <2>4 DEF Calm, Live
<1>6. ASSUME NEW t \in Threads, StopStep(t) \/ RunStep(t) PROVE Calm'
  <2> SUFFICES ASSUME past'.silence = "calm" PROVE Calm'
    BY DEF Calm
  <2>1. CASE past.silence = "calm"
    <3>1. ASSUME NEW u \in Threads, Live(u)' PROVE Quiet(dbg'[u[1]])
      <4>1. PICK w \in Threads : Live(w) /\ w[1] = u[1]
        BY <1>6, <3>1, ThreadAlone, ThreadRuns DEF Live
      <4>2. u[1] \in Runs /\ Quiet(dbg[u[1]])
        BY <2>1, <4>1, DebugAssumption DEF Calm
      <4> QED
        BY <1>6, <2>1, <4>2, ThreadStaysQuiet
    <3>2. \A u \in Threads : thr'[u].apply # Nothing => thr'[u].apply[2] = {}
      BY <1>6, <2>1, ThreadAlone, ThreadStaysClear DEF Calm
    <3> QED
      BY <1>6, <2>1, <3>1, <3>2, ThreadStaysClear DEF Calm
  <2>2. CASE past.silence # "calm"
    <3>1. CASE Cleared(t)
      <4>1. ~past.overlap /\ ~dbg[t[1]].force
        BY <1>0, <2>2, <3>1 DEF Cleared
      <4> QED
        BY <3>1, <4>1, BecomesCalm DEF Apart
    <3>2. CASE TimeOut(t)
      BY <1>0, <3>2 DEF TimeOut
    <3>3. CASE UNCHANGED past
      BY <2>2, <3>3
    <3> QED
      BY <1>6, <3>1, <3>2, <3>3 DEF StopStep, RunStep, HandlePause, TakeCommand, ClearOne,
         ThreadApplies, ReadProgram, SyncAll, SyncOne, Statement, SpawnTask, EndThread
  <2> QED
    BY <2>1, <2>2
<1> QED
  BY <1>1, <1>2, <1>3, <1>4, <1>5, <1>6, Steps
-----------------------------------------------------------------------------
\* The inductive invariant, and what follows from it.

LEMMA Initially == Init => IInv
<1> SUFFICES ASSUME Init PROVE IInv
  OBVIOUS
<1>1. Types
  BY TypesInit
<1>2. LaunchStored /\ StartPending /\ StoredPending /\ Silent
  BY DEF Init, LaunchStored, StartPending, StoredPending, Silent, Ready
<1>3. Untouched
  <2>1. \A r \in Runs : Quiet(dbg[r])
    BY DEF Init, Quiet, NoStep
  <2>2. adapter.debugger = 0 /\ \A t \in Threads : thr[t].at = "off"
    BY DEF Init
  <2>3. \A r \in Runs : r # adapter.debugger
    BY <2>2, RunNumbers
  <2> QED
    BY <2>1, <2>2, <2>3 DEF Untouched
<1>4. /\ \A t \in Threads : thr[t].at = "off" /\ thr[t].apply = Nothing
      /\ \A r \in Runs, n \in Namespaces : dbg[r].bps[n] = {}
      /\ \A n : FilesOf(n) = {}
      /\ DOMAIN breakpoints = {} /\ reader.at = "ready" /\ past.silence = "no"
  BY DEF Init, Ready, FilesOf
<1>5. Loops
  BY <1>4 DEF Loops
<1>6. OneRun /\ UpdatesRight /\ Agree /\ ClearedSoFar
  BY <1>4 DEF OneRun, UpdatesRight, Agree, ClearedSoFar, Live
<1> QED
  BY <1>1, <1>2, <1>3, <1>4, <1>5, <1>6 DEF IInv, Apart, Orderly, Calm

LEMMA Inductive == IInv /\ [Next]_vars => IInv'
  BY TypesStep, StartStep, StoredStep, UntouchedStep, LoopsStep, ApartStep, SilentStep, CalmStep DEF IInv

LEMMA Invariant == Spec => []IInv
  BY Initially, Inductive, PTL DEF Spec

\* A launch with its configuration done has started the program, once neither the
\* reader nor the watchdog is about to: the launch flag goes up before the program
\* is stored, and whoever checks in between starts nothing, but then the reader's
\* own check is still to come.  When both store a thread, whoever stored the last one
\* is still to start it, unless the other has.
THEOREM LaunchStarts == Spec => []ConfiguredStarts
<1>1. IInv => ConfiguredStarts
  BY DEF IInv, StartPending, StoredPending, Begun, ConfiguredStarts
<1> QED
  BY <1>1, Invariant, PTL

\* The current debugger has, in each namespace, the lines of one of the files of the
\* namespace, and none where there is no file, whenever nobody is about to pass lines
\* on; and no thread dies in its loop over the files; if nothing overlapped.
THEOREM SessionBreakpointsAgree == Spec => []BreakpointsAgree
<1>1. ASSUME IInv PROVE BreakpointsAgree
  <2> SUFFICES ASSUME ~past.overlap PROVE BreakpointsAgree
    BY DEF BreakpointsAgree
  <2>1. Orderly /\ Loops /\ Types
    BY <1>1 DEF IInv, Apart
  <2>2. At("dead") = {}
    BY <2>1 DEF Orderly, OneRun, At
  <2>3. ASSUME reader.at # "apply", At("made") \cup At("sync") \cup At("clearing") = {},
               NEW r \in Runs, r = adapter.debugger, NEW n \in Namespaces
        PROVE  IF FilesOf(n) = {} THEN dbg[r].bps[n] = {}
               ELSE \E p \in FilesOf(n) : dbg[r].bps[n] = breakpoints[p]
    <3>1. \A t \in Threads : thr[t].at \notin {"made", "sync", "clearing"}
      BY <2>3 DEF At
    <3>2. \A p : ~Pending(p)
      BY <2>1, <2>3, <3>1 DEF Pending, OnItsWay, Loops
    <3>3. FilesOf(n) # {} => \E p \in FilesOf(n) : dbg[r].bps[n] = breakpoints[p]
      BY <2>1, <2>3, <3>2 DEF Orderly, Agree, PassedOn
    <3>4. FilesOf(n) = {} => dbg[r].bps[n] = {}
      BY <2>1 DEF Loops
    <3> QED
      BY <3>3, <3>4
  <2> QED
    BY <2>2, <2>3 DEF BreakpointsAgree
<1> QED
  BY <1>1, Invariant, PTL

\* A program that goes on after a timeout does not stop again before the client
\* says something, unless it had asked for a pause.
THEOREM SessionTimeoutLetsRun == Spec => TimeoutLetsRun
<1> DEFINE RunsOn == past.silence = "calm" =>
                        \A t \in Threads : thr'[t].at = "pausing" => thr[t].at = "pausing"
<1>1. ASSUME IInv, [Next]_vars PROVE RunsOn
  <2> SUFFICES ASSUME past.silence = "calm", NEW t \in Threads, thr'[t].at = "pausing",
                      thr[t].at # "pausing"
               PROVE  FALSE
    OBVIOUS
  <2>1. Types /\ Loops /\ Calm
    BY <1>1 DEF IInv
  <2>2. CASE thr' = thr
    BY <2>2
  <2>3. CASE Starts
    BY <2>1, <2>3, StartRunThread DEF Starts, Thread
  <2>4. ASSUME NEW u \in Threads, StopStep(u) \/ RunStep(u) PROVE FALSE
    <3>1. u = t
      BY <2>1, <2>4, ThreadAlone
    <3>2. ASSUME NEW loc \in Places, NEW depth \in 0..MaxDepth, Statement(t, loc, depth) PROVE FALSE
      <4>1. Live(t) /\ ShouldPause(dbg[t[1]], loc, depth)
        BY <3>2 DEF Statement, Live
      <4>2. Quiet(dbg[t[1]])
        BY <2>1, <4>1 DEF Calm
      <4> QED
        BY <4>1, <4>2, QuietRuns
    <3>3. ASSUME NEW command, GoOn(t, command), UNCHANGED breakpoints PROVE FALSE
      BY <2>1, <3>3, GoOnThread DEF Thread
    <3>4. CASE TakeCommand(t) \/ Cleared(t)
      BY <3>3, <3>4 DEF TakeCommand, Cleared
    <3>5. CASE StopStep(t)
      BY <2>1, <3>4, <3>5, HandlePauseThread, TimeOutThread, ClearOneThread, ThreadAppliesThread
         DEF StopStep, Thread
    <3>6. CASE RunStep(t)
      BY <2>1, <3>2, <3>6, ReadProgramThread, SyncAllThread, SyncOneThread, SpawnTaskThread,
         EndThreadThread DEF RunStep, Thread
    <3> QED
      BY <2>4, <3>1, <3>5, <3>6
  <2>5. ASSUME NEW p, NEW lines, SetBreakpoints(p, lines) PROVE thr' = thr
    BY <2>5 DEF SetBreakpoints
  <2>6. Aside \/ Pause \/ ReaderApplies => thr' = thr
    BY DEF Aside, Pause, ReaderApplies
  <2> QED
    BY <1>1, <2>1, <2>2, <2>3, <2>4, <2>5, <2>6, Steps
<1>2. IInv /\ [Next]_vars => [RunsOn]_vars
  BY <1>1
<1> QED
  BY <1>2, Invariant, PTL DEF Spec, TimeoutLetsRun
-----------------------------------------------------------------------------
\* Commands and the threads that wait for one.

Waiting == At("waiting")
Told == IF client.told THEN 1 ELSE 0
Matching == Len(queue) + Told <= Cardinality(Waiting)
Leaving == reader.at \in {"leave", "gone"}

LEMMA LeavingStays == Types /\ Leaving /\ [Next]_vars => Leaving'
<1> SUFFICES ASSUME Types, Leaving, [Next]_vars PROVE Leaving'
  OBVIOUS
<1>1. CASE reader' = reader
  BY <1>1 DEF Leaving
<1>2. ASSUME NEW p, NEW lines, SetBreakpoints(p, lines) PROVE FALSE
  BY <1>2 DEF SetBreakpoints, Message, Leaving
<1>3. ASSUME NEW command, Resume(command) PROVE FALSE
  BY <1>3 DEF Resume, Leaving
<1>4. ~Request
  BY <1>2, <1>3 DEF Request, Initialize, Launch, ConfigurationDone, Pause, Disconnect, Message, Leaving
<1>5. ~ReaderStep
  BY DEF ReaderStep, StoreProgram, ReaderChecks, ReaderStores, ReaderStarts, ReaderApplies, Leaving
<1>6. CASE ShutDown
  BY <1>6 DEF ShutDown, Types, Leaving
<1>7. CASE WatchdogStep
  BY <1>1, <1>7 DEF WatchdogStep, Warn, ForceStart, WatchdogChecks, WatchdogStores, WatchdogStarts
<1>8. ASSUME NEW t \in Threads, StopStep(t) \/ RunStep(t) PROVE Leaving'
  BY <1>1, <1>8, ThreadSession
<1> QED
  BY <1>1, <1>4, <1>5, <1>6, <1>7, <1>8 DEF Next, vars

LEMMA ExpiredStays == Types /\ past.expired /\ [Next]_vars => past'.expired
<1> SUFFICES ASSUME Types, past.expired, [Next]_vars PROVE past'.expired
  OBVIOUS
<1>0. past \in [expired : BOOLEAN, overlap : BOOLEAN, silence : {"no", "clearing", "calm"}]
  BY DEF Types
<1>1. CASE Aside
  BY <1>1 DEF Aside
<1>2. ASSUME NEW p, NEW lines, SetBreakpoints(p, lines) PROVE past'.expired
  BY <1>0, <1>2 DEF SetBreakpoints
<1>3. CASE Pause
  BY <1>0, <1>3 DEF Pause, Talk
<1>4. CASE ReaderApplies
  BY <1>4 DEF ReaderApplies
<1>5. CASE Starts
  BY <1>5, StartsRun
<1>6. ASSUME NEW t \in Threads, StopStep(t) \/ RunStep(t) PROVE past'.expired
  <2>1. CASE TimeOut(t)
    BY <1>0, <2>1 DEF TimeOut
  <2>2. CASE Cleared(t)
    BY <1>0, <2>2 DEF Cleared
  <2> QED
    BY <1>6, <2>1, <2>2 DEF StopStep, RunStep, HandlePause, TakeCommand, ClearOne, ThreadApplies,
       ReadProgram, SyncAll, SyncOne, Statement, SpawnTask, EndThread
<1> QED
  BY <1>1, <1>2, <1>3, <1>4, <1>5, <1>6, Steps

\* What a step of a thread means for those that wait.
LEMMA ThreadWaits ==
    ASSUME Types, NEW t \in Threads, StopStep(t) \/ RunStep(t)
    PROVE  \/ HandlePause(t) /\ t \notin Waiting /\ Waiting' = Waiting \cup {t}
           \/ TakeCommand(t) /\ t \in Waiting /\ Waiting' = Waiting \ {t}
           \/ TimeOut(t) /\ Waiting' = Waiting \ {t}
           \/ Waiting' = Waiting /\ UNCHANGED <<queue, client>>
<1>1. \A u \in Threads \ {t} : thr'[u] = thr[u]
  BY ThreadAlone
<1>2. ASSUME thr[t].at # "waiting", thr'[t].at # "waiting" PROVE Waiting' = Waiting
  BY <1>1, <1>2 DEF Waiting, At
<1>3. CASE HandlePause(t)
  <2>1. thr[t].at = "pausing" /\ thr'[t].at = "waiting"
    BY <1>3, HandlePauseThread DEF HandlePause, Thread
  <2> QED
    BY <1>1, <1>3, <2>1 DEF Waiting, At
<1>4. CASE TakeCommand(t)
  <2>1. thr[t].at = "waiting" /\ thr'[t].at = "run"
    BY <1>4, GoOnThread DEF TakeCommand, Thread
  <2> QED
    BY <1>1, <1>4, <2>1 DEF Waiting, At
<1>5. CASE TimeOut(t)
  <2>1. thr'[t].at = "clearing"
    BY <1>5, TimeOutThread DEF Thread
  <2> QED
    BY <1>1, <1>5, <2>1 DEF Waiting, At
<1>6. CASE ClearOne(t)
  BY <1>2, <1>6, ClearOneThread DEF ClearOne, Thread
<1>7. CASE Cleared(t)
  <2>1. thr[t].at = "clearing" /\ thr'[t].at = "run"
    BY <1>7, GoOnThread DEF Cleared, Thread
  <2> QED
    BY <1>2, <1>7, <2>1 DEF Cleared
<1>8. CASE ThreadApplies(t)
  <2>1. thr'[t].at = thr[t].at
    BY <1>8, ThreadAppliesThread DEF Thread
  <2>2. Waiting' = Waiting
    BY <1>1, <2>1 DEF Waiting, At
  <2> QED
    BY <1>8, <2>2 DEF ThreadApplies
<1>9. CASE RunStep(t)
  <2>1. thr[t].at # "waiting"
    BY <1>9 DEF RunStep, ReadProgram, SyncAll, SyncOne, Statement, SpawnTask, EndThread
  <2>2. thr'[t].at # "waiting"
    <3>1. ~SyncOne(t) => thr'[t].at \in {"ended", "made", "sync", "pausing", "run"}
      BY <1>9, ReadProgramThread, SyncAllThread, StatementThread, SpawnTaskThread,
         EndThreadThread DEF RunStep, Thread
    <3>2. SyncOne(t) => thr'[t].at \in {"dead", "run", "sync"}
      BY SyncOneThread DEF Thread
    <3> QED
      BY <3>1, <3>2
  <2>3. UNCHANGED <<queue, client>>
    BY <1>9 DEF RunStep, ReadProgram, SyncAll, SyncOne, Statement, SpawnTask, EndThread
  <2>4. Waiting' = Waiting
    BY <1>2, <2>1, <2>2
  <2> QED
    BY <2>3, <2>4
<1> QED
  BY <1>3, <1>4, <1>5, <1>6, <1>7, <1>8, <1>9 DEF StopStep

LEMMA StartsWaiting == ASSUME Types, Starts PROVE Waiting' = Waiting
<1>1. PICK s \in Threads : Thread(s, "read", thr[s].left, thr[s].apply) /\ thr[s].at = "off"
  BY StartRunThread DEF Starts
<1> QED
  BY <1>1 DEF Waiting, At, Thread

\* There are never but finitely many that wait, so that they can be counted.
LEMMA WaitingFinite ==
    Types /\ IsFiniteSet(Waiting) /\ [Next]_vars => IsFiniteSet(Waiting')
<1> SUFFICES ASSUME Types, IsFiniteSet(Waiting), [Next]_vars PROVE IsFiniteSet(Waiting')
  OBVIOUS
<1>1. CASE Waiting' = Waiting
  BY <1>1
<1>2. ASSUME NEW t \in Threads, StopStep(t) \/ RunStep(t) PROVE IsFiniteSet(Waiting')
  <2>1. \A S, x : IsFiniteSet(S) => IsFiniteSet(S \cup {x}) /\ IsFiniteSet(S \ {x})
    BY FS_AddElement, FS_RemoveElement
  <2>2. IsFiniteSet(Waiting \cup {t}) /\ IsFiniteSet(Waiting \ {t})
    BY <2>1
  <2>3. Waiting' \in {Waiting, Waiting \cup {t}, Waiting \ {t}}
    BY <1>2, ThreadWaits
  <2> QED
    BY <2>2, <2>3
<1>3. CASE Starts
  BY <1>1, <1>3, StartsWaiting
<1>4. ASSUME NEW p, NEW lines, SetBreakpoints(p, lines) PROVE thr' = thr
  BY <1>4 DEF SetBreakpoints
<1>5. Aside \/ Pause \/ ReaderApplies => thr' = thr
  BY DEF Aside, Pause, ReaderApplies
<1>6. thr' = thr => Waiting' = Waiting
  BY DEF Waiting, At
<1> QED
  BY <1>1, <1>2, <1>3, <1>4, <1>5, <1>6, Steps

\* No command without a stop.
LEMMA MatchingStep ==
    ASSUME Types, IsFiniteSet(Waiting), Matching, [Next]_vars,
           ~past'.expired, ~Leaving'
    PROVE  Matching'
<1>0. /\ queue \in Seq(Commands) /\ Len(queue) \in Nat /\ Cardinality(Waiting) \in Nat
      /\ client \in [messages : Nat, told : BOOLEAN]
  BY FS_CardinalityType DEF Types
<1>1. CASE Waiting' = Waiting /\ queue' = queue /\ client'.told = client.told
  BY <1>1 DEF Matching, Told
<1>2. Message => client'.told = client.told
  BY <1>0 DEF Message
<1>3. thr' = thr => Waiting' = Waiting
  BY DEF Waiting, At
<1>4. ASSUME Request PROVE Matching'
  <2>1. ASSUME NEW command \in Commands, Resume(command) PROVE Matching'
    <3>1. client.told /\ ~client'.told /\ queue' = Append(queue, command) /\ Waiting' = Waiting
      BY <1>3, <2>1 DEF Resume
    <3>2. Len(queue') = Len(queue) + 1
      BY <1>0, <3>1
    <3> QED
      BY <1>0, <3>1, <3>2 DEF Matching, Told
  <2>2. ASSUME NEW p, NEW lines, SetBreakpoints(p, lines) PROVE Matching'
    BY <1>1, <1>2, <1>3, <2>2 DEF SetBreakpoints
  <2>3. CASE Disconnect
    BY <2>3 DEF Disconnect, Leaving, Types
  <2>4. CASE Initialize \/ Launch \/ ConfigurationDone \/ Pause
    BY <1>1, <1>2, <1>3, <2>4 DEF Initialize, Launch, ConfigurationDone, Pause
  <2> QED
    BY <1>4, <2>1, <2>2, <2>3, <2>4 DEF Request
<1>6. ASSUME ReaderStep \/ ShutDown \/ WatchdogStep PROVE Matching'
  <2>1. ASSUME ReaderStarts \/ WatchdogStarts PROVE Matching'
    <3>1. adapter.thread # 0 /\ UNCHANGED <<queue, client>> /\ (StartRun \/ thr' = thr)
      BY <2>1 DEF ReaderStarts, WatchdogStarts, StartRun, StartFails, Types
    <3>2. StartRun => Waiting' = Waiting
      BY <3>1, StartRunThread DEF Thread, Waiting, At
    <3> QED
      BY <1>1, <1>3, <3>1, <3>2
  <2>2. ASSUME ~(ReaderStarts \/ WatchdogStarts) PROVE thr' = thr /\ UNCHANGED <<queue, client>>
    BY <1>6, <2>2 DEF ReaderStep, ShutDown, WatchdogStep, StoreProgram, ReaderChecks, ReaderStores,
       ReaderApplies, Warn, ForceStart, WatchdogChecks, WatchdogStores, StoreThread
  <2> QED
    BY <1>1, <1>3, <2>1, <2>2
<1>7. ASSUME NEW t \in Threads, StopStep(t) \/ RunStep(t) PROVE Matching'
  <2>1. CASE HandlePause(t) /\ t \notin Waiting /\ Waiting' = Waiting \cup {t}
    <3>1. \A S, x : IsFiniteSet(S) /\ x \notin S => Cardinality(S \cup {x}) = Cardinality(S) + 1
      BY FS_AddElement
    <3>2. Cardinality(Waiting') = Cardinality(Waiting) + 1
      BY <2>1, <3>1
    <3>3. client'.told /\ queue' = queue
      BY <1>0, <2>1 DEF HandlePause
    <3> QED
      BY <1>0, <3>2, <3>3 DEF Matching, Told
  <2>2. CASE TakeCommand(t) /\ t \in Waiting /\ Waiting' = Waiting \ {t}
    <3>1. \A S, x : IsFiniteSet(S) /\ x \in S => Cardinality(S \ {x}) = Cardinality(S) - 1
      BY FS_RemoveElement
    <3>2. Cardinality(Waiting') = Cardinality(Waiting) - 1
      BY <2>2, <3>1
    <3>3. client' = client /\ queue # <<>> /\ queue' = Tail(queue)
      BY <2>2 DEF TakeCommand
    <3>4. Len(queue') = Len(queue) - 1
      BY <1>0, <3>3
    <3> QED
      BY <1>0, <3>2, <3>3, <3>4 DEF Matching, Told
  <2>3. CASE TimeOut(t)
    BY <2>3 DEF TimeOut, Types
  <2>4. CASE Waiting' = Waiting /\ UNCHANGED <<queue, client>>
    BY <1>1, <2>4
  <2> QED
    BY <1>7, <2>1, <2>2, <2>3, <2>4, ThreadWaits
<1>8. CASE UNCHANGED vars
  BY <1>1, <1>3, <1>8 DEF vars
<1> QED
  BY <1>4, <1>6, <1>7, <1>8 DEF Next

\* No command is left over for a later stop: as long as no stop has timed out and
\* the client has not disconnected, the commands in the queue, and the one the client
\* may still send for the stop it was told of, are no more than the threads waiting.
THEOREM SessionCommandsMatchStops == Spec => []CommandsMatchStops
<1> DEFINE Inv == IInv /\ IsFiniteSet(Waiting) /\ CommandsMatchStops
<1>0. CommandsMatchStops <=> past.expired \/ Leaving \/ Matching
  BY DEF CommandsMatchStops, Leaving, Matching, Told, Waiting
<1>1. ASSUME Init PROVE Inv
  <2>1. queue = <<>> /\ ~client.told /\ Waiting = {}
    BY <1>1 DEF Init, Waiting, At
  <2>2. IsFiniteSet({}) /\ Cardinality({}) = 0
    BY FS_EmptySet
  <2>3. Matching
    BY <2>1, <2>2 DEF Matching, Told
  <2> QED
    BY <1>0, <1>1, <2>1, <2>2, <2>3, Initially
<1>2. ASSUME Inv, [Next]_vars PROVE Inv'
  <2>1. Types
    BY <1>2 DEF IInv
  <2>2. IInv' /\ IsFiniteSet(Waiting')
    BY <1>2, <2>1, Inductive, WaitingFinite
  <2>3. past'.expired \/ Leaving' \/ Matching'
    BY <1>0, <1>2, <2>1, ExpiredStays, LeavingStays, MatchingStep
  <2>4. CommandsMatchStops' <=> past'.expired \/ Leaving' \/ Matching'
    BY DEF CommandsMatchStops, Leaving, Matching, Told, Waiting
  <2> QED
    BY <2>2, <2>3, <2>4
<1> QED
  BY <1>1, <1>2, PTL DEF Spec
=============================================================================
