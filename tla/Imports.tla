------------------------------- MODULE Imports ------------------------------
(***************************************************************************)
(* Importing a module: ModuleResolver.import_module and the run of the     *)
(* module's text by compile_and_run, nested as deep as modules import each *)
(* other.                                                                  *)
(*                                                                         *)
(* An import borrows the one Runtime of the program: it saves and replaces *)
(* the global environment and the current module (its path and source      *)
(* text, and its namespace), and it empties the buffer of the program's    *)
(* output, to put the pieces together again at its end.  A call of a       *)
(* function or method changes the namespace too, for as long as it runs.   *)
(* Any thread may import and call, and all threads share the resolver and  *)
(* the runtime.  The list of the modules in progress is searched with      *)
(* Path.__eq__, which is Python code: other threads run between one        *)
(* element and the next, and may shift the list under the search.          *)
(*                                                                         *)
(* What a module's text does is open: it prints, imports, calls, fails,    *)
(* catches the failure of an import or a call, or ends.  Definitions named *)
(* Bug... are mistakes one could make in the operation below them; the     *)
(* specification does not use them.                                        *)
(***************************************************************************)
EXTENDS Naturals, Sequences, SequencesExt

CONSTANTS Threads,
          Program,      \* the main program, where every thread starts
          Modules,      \* the modules there are files for
          Unparsable,   \* those whose text does not parse or lint
          MaxSteps      \* bound: lines printed, imports started and calls made in a run

ASSUME ImportsAssumption == /\ Program \notin Modules
                            /\ Unparsable \subseteq Modules
                            /\ MaxSteps \in Nat

Units == Modules \cup {Program}

VARIABLES
  \* ModuleResolver
  cache, in_progress,
  \* Runtime: the unit whose environment is the global one, the unit of
  \* current_module_path and source, that of current_module_namespace, the lines
  \* printed, and how many of them the debugger has been sent
  global_env, current, namespace, output, cursor,
  \* a thread: where it is, the imports and calls it is inside of with what each
  \* has saved, the module it looks for in in_progress, and how far it is: the
  \* index and the path it compares, and the number of the entry it made itself
  pc, frames, asked, search,
  \* history: all lines printed, all lines sent to the debugger, the modules run
  \* to their end (once, twice), false accusations of a circular import, threads
  \* that have imported or printed, the numbers of imports started and of calls made,
  \* whether a module that does not parse was imported, and whether two imports of
  \* one module were let in at once
  printed, shown, loaded, reloaded, accused, users, imports, calls, misread, doubled

runtimeVars == <<global_env, current, namespace, output, cursor>>
resolverVars == <<cache, in_progress>>
threadVars == <<pc, frames, asked, search>>
history == <<printed, shown, loaded, reloaded, accused, users, imports, calls, misread, doubled>>
vars == <<runtimeVars, resolverVars, threadVars, history>>

\* Entry of in_progress: every import makes a path of its own.
Entry(m, n) == [unit |-> m, n |-> n]
Frame(kind, u, n, env, saved, cur, ns) ==
    [kind |-> kind, unit |-> u, n |-> n, env |-> env, saved |-> saved, cur |-> cur, ns |-> ns]
Start(n) == [at |-> 0, met |-> Program, own |-> n]

-----------------------------------------------------------------------------
Init == /\ cache = {}
        /\ in_progress = <<>>
        /\ global_env = Program
        /\ current = Program
        /\ namespace = Program
        /\ output = <<>>
        /\ cursor = 0
        /\ pc = [t \in Threads |-> "run"]
        /\ frames = [t \in Threads |-> <<Frame("import", Program, 0, Program, <<>>, Program, Program)>>]
        /\ asked = [t \in Threads |-> Program]
        /\ search = [t \in Threads |-> Start(0)]
        /\ printed = <<>>
        /\ shown = <<>>
        /\ loaded = {}
        /\ reloaded = {}
        /\ accused = {}
        /\ users = {}
        /\ imports = 0
        /\ calls = 0
        /\ misread = FALSE
        /\ doubled = FALSE

Top(t) == Last(frames[t])
Importing(t) == Len(frames[t]) > 1 /\ Top(t).kind = "import"
Calling(t) == Top(t).kind = "call"
Inside(t) == {frames[t][i].unit : i \in {j \in 2..Len(frames[t]) : frames[t][j].kind = "import"}}
Leaving(t) == pc[t] \in {"closing", "dropping"}
InHand(t) == Inside(t) \cup IF Leaving(t) THEN {asked[t]} ELSE {}
Listed == {e.unit : e \in Range(in_progress)}
GoesOn == imports + calls + Len(printed) < MaxSteps
ThreadGoes(t, there) == pc' = [pc EXCEPT ![t] = there]

-----------------------------------------------------------------------------
\* print: the line is appended, and what the debugger has not been sent is sent.
PrintLine(t) ==
    /\ pc[t] = "run"
    /\ GoesOn
    /\ output' = Append(output, Top(t).unit)
    /\ printed' = Append(printed, Top(t).unit)
    /\ shown' = shown \o SubSeq(output', cursor + 1, Len(output'))
    /\ cursor' = Len(output')
    /\ users' = users \cup {t}
    /\ UNCHANGED <<global_env, current, namespace, resolverVars, threadVars,
                   loaded, reloaded, accused, imports, calls, misread, doubled>>

\* The cache is not asked.
BugNoCache(t, m) ==
    /\ pc[t] = "run"
    /\ asked' = [asked EXCEPT ![t] = m]
    /\ ThreadGoes(t, "looked")
    /\ users' = users \cup {t}
    /\ UNCHANGED <<runtimeVars, resolverVars, frames, search,
                   printed, shown, loaded, reloaded, accused, imports, calls, misread, doubled>>

\* import of a module: one in the cache is returned at once, which changes
\* nothing; otherwise its file is looked for.
LookUp(t, m) ==
    /\ pc[t] = "run"
    /\ m \notin cache
    /\ asked' = [asked EXCEPT ![t] = m]
    /\ ThreadGoes(t, "looked")
    /\ users' = users \cup {t}
    /\ UNCHANGED <<runtimeVars, resolverVars, frames, search,
                   printed, shown, loaded, reloaded, accused, imports, calls, misread, doubled>>

\* The file exists: the list of the modules in progress is searched for it.  When an
\* import ends, it is searched again to remove the path that this import put there;
\* that very object is taken for equal without a comparison.
Equal(t) == search[t].met = asked[t]
NextAt(t) == search[t].at + 1
AtEnd(t) == ~Equal(t) /\ NextAt(t) > Len(in_progress)
AtOwn(t) == ~Equal(t) /\ ~AtEnd(t) /\ in_progress[NextAt(t)].n = search[t].own

Compare(t) ==
    /\ pc[t] = "looked" \/ Leaving(t)
    /\ ~Equal(t) /\ ~AtEnd(t) /\ ~AtOwn(t)
    /\ search' = [search EXCEPT ![t] =
                      [at |-> NextAt(t), met |-> in_progress[NextAt(t)].unit, own |-> @.own]]
    /\ UNCHANGED <<runtimeVars, resolverVars, pc, frames, asked, history>>

\* An import of the module is in progress, in any thread: it is taken for a circular
\* one (E008).
Circular(t) ==
    /\ pc[t] = "looked"
    /\ Equal(t)
    /\ ThreadGoes(t, "raised")
    /\ asked' = [asked EXCEPT ![t] = Program]
    /\ search' = [search EXCEPT ![t] = Start(0)]
    /\ accused' = IF asked[t] \in Inside(t) THEN accused ELSE accused \cup {asked[t]}
    /\ UNCHANGED <<runtimeVars, resolverVars, frames,
                   printed, shown, loaded, reloaded, users, imports, calls, misread, doubled>>

NotInProgress(t) ==
    /\ pc[t] = "looked"
    /\ AtEnd(t)
    /\ ThreadGoes(t, "absent")
    /\ search' = [search EXCEPT ![t] = Start(0)]
    /\ UNCHANGED <<runtimeVars, resolverVars, frames, asked, history>>

\* It is put in the list, and what the run will overwrite is saved.
StartImport(t) ==
    LET m == asked[t]
    IN  /\ pc[t] = "absent"
        /\ GoesOn
        /\ imports' = imports + 1
        /\ in_progress' = Append(in_progress, Entry(m, imports'))
        /\ frames' = [frames EXCEPT ![t] =
                         Append(@, Frame("import", m, imports', global_env, output, current, namespace))]
        /\ ThreadGoes(t, "read")
        /\ asked' = [asked EXCEPT ![t] = Program]
        /\ doubled' = (doubled \/ \E u \in Threads : m \in Listed \cup InHand(u))
        /\ UNCHANGED <<runtimeVars, cache, search,
                       printed, shown, loaded, reloaded, accused, users, calls, misread>>

\* compile_and_run parses and lints the text, and raises if it cannot ...
Misread(t) ==
    /\ pc[t] = "read"
    /\ Top(t).unit \in Unparsable
    /\ misread' = TRUE
    /\ ThreadGoes(t, "failed")
    /\ UNCHANGED <<runtimeVars, resolverVars, frames, asked, search,
                   printed, shown, loaded, reloaded, accused, users, imports, calls, doubled>>

\* The debugger's cursor is left where it was.
BugCursorStays == cursor
FreshCursor == 0

\* ... before it replaces the runtime's context and empties the buffer.
RunModule(t) ==
    LET m == Top(t).unit
    IN  /\ pc[t] = "read"
        /\ m \notin Unparsable
        /\ frames' = [frames EXCEPT ![t][Len(frames[t])].cur = current,
                                    ![t][Len(frames[t])].ns = namespace]
        /\ current' = m
        /\ namespace' = m
        /\ global_env' = m
        /\ output' = <<>>
        /\ cursor' = FreshCursor
        /\ ThreadGoes(t, "run")
        /\ UNCHANGED <<resolverVars, asked, search, history>>

\* _invoke_function and call_method: the namespace becomes the function's, and
\* stays what it is when the function is the program's, which has none.  A
\* function can be called once its unit's text has started to run.
Call(t, u) ==
    /\ pc[t] = "run"
    /\ GoesOn
    /\ calls' = calls + 1
    /\ u \in {Program} \cup cache \cup Inside(t)
    /\ frames' = [frames EXCEPT ![t] =
                     Append(@, Frame("call", u, 0, global_env, <<>>, current, namespace))]
    /\ namespace' = IF u = Program THEN namespace ELSE u
    /\ users' = users \cup {t}
    /\ UNCHANGED <<global_env, current, output, cursor, resolverVars, pc, asked, search,
                   printed, shown, loaded, reloaded, accused, imports, misread, doubled>>

\* The function returns, or lets an error out: its finally clause.
Return(t) ==
    /\ Calling(t)
    /\ pc[t] \in {"run", "raised"}
    /\ frames' = [frames EXCEPT ![t] = Front(@)]
    /\ namespace' = Top(t).ns
    /\ UNCHANGED <<global_env, current, output, cursor, resolverVars, pc, asked, search, history>>

\* A statement of the unit raises an error.
Fail(t) == /\ pc[t] = "run"
           /\ ThreadGoes(t, "raised")
           /\ UNCHANGED <<runtimeVars, resolverVars, frames, asked, search, history>>

\* A try around the import, or the statement, catches it.
Catch(t) == /\ pc[t] = "raised"
            /\ ThreadGoes(t, "run")
            /\ UNCHANGED <<runtimeVars, resolverVars, frames, asked, search, history>>

\* The context is put back when the module has run to its end, and only then.
BugEndModule(t) ==
    /\ Importing(t)
    /\ \/ pc[t] = "run" /\ ThreadGoes(t, "ended") /\ current' = Top(t).cur /\ namespace' = Top(t).ns
       \/ pc[t] = "raised" /\ ThreadGoes(t, "failed") /\ UNCHANGED <<current, namespace>>
    /\ UNCHANGED <<global_env, output, cursor, resolverVars, frames, asked, search, history>>

\* The module's text ends, or lets an error out: the finally of compile_and_run.
EndModule(t) ==
    /\ Importing(t)
    /\ \/ pc[t] = "run" /\ ThreadGoes(t, "ended")
       \/ pc[t] = "raised" /\ ThreadGoes(t, "failed")
    /\ current' = Top(t).cur
    /\ namespace' = Top(t).ns
    /\ UNCHANGED <<global_env, output, cursor, resolverVars, frames, asked, search, history>>

\* The module's own output goes in front, or takes the place of the caller's.
BugOutputSwapped(t) == output \o Top(t).saved
Rejoined(t) == Top(t).saved \o output

\* The inner finally clause of import_module: the caller's environment and output
\* are put back; a module that has run to its end is cached.
FinishImport(t) ==
    LET m == Top(t).unit
        ok == pc[t] = "ended"
    IN  /\ pc[t] \in {"ended", "failed"}
        /\ global_env' = Top(t).env
        /\ output' = Rejoined(t)
        /\ cursor' = cursor + Len(Top(t).saved)
        /\ cache' = IF ok THEN cache \cup {m} ELSE cache
        /\ frames' = [frames EXCEPT ![t] = Front(@)]
        /\ ThreadGoes(t, IF ok THEN "closing" ELSE "dropping")
        /\ asked' = [asked EXCEPT ![t] = m]
        /\ search' = [search EXCEPT ![t] = Start(Top(t).n)]
        /\ loaded' = IF ok THEN loaded \cup {m} ELSE loaded
        /\ reloaded' = IF ok /\ m \in loaded THEN reloaded \cup {m} ELSE reloaded
        /\ UNCHANGED <<current, namespace, in_progress,
                       printed, shown, accused, users, imports, calls, misread, doubled>>

\* A failed import stays in progress.
BugKeepsFailed(t, i) == IF pc[t] = "closing" /\ i \in DOMAIN in_progress THEN RemoveAt(in_progress, i) ELSE in_progress
NoLongerInProgress(t, i) == IF i \in DOMAIN in_progress THEN RemoveAt(in_progress, i) ELSE in_progress

\* The outer one, list.remove: what is at the index of the path found goes, whatever
\* it is by now.  A search that comes to the end raises a ValueError.  The error of
\* a module that has not run to its end goes on to the import statement.
LeaveImport(t) ==
    /\ Leaving(t)
    /\ \/ /\ Equal(t)
          /\ in_progress' = NoLongerInProgress(t, search[t].at)
          /\ ThreadGoes(t, IF pc[t] = "closing" THEN "run" ELSE "raised")
       \/ /\ AtOwn(t)
          /\ in_progress' = NoLongerInProgress(t, NextAt(t))
          /\ ThreadGoes(t, IF pc[t] = "closing" THEN "run" ELSE "raised")
       \/ /\ AtEnd(t)
          /\ ThreadGoes(t, "raised")
          /\ UNCHANGED in_progress
    /\ asked' = [asked EXCEPT ![t] = Program]
    /\ search' = [search EXCEPT ![t] = Start(0)]
    /\ UNCHANGED <<runtimeVars, cache, frames, history>>

Next == \E t \in Threads : \/ PrintLine(t)
                           \/ \E m \in Modules : LookUp(t, m)
                           \/ Compare(t)
                           \/ Circular(t)
                           \/ NotInProgress(t)
                           \/ StartImport(t)
                           \/ Misread(t)
                           \/ RunModule(t)
                           \/ \E u \in Units : Call(t, u)
                           \/ Return(t)
                           \/ Fail(t)
                           \/ Catch(t)
                           \/ EndModule(t)
                           \/ FinishImport(t)
                           \/ LeaveImport(t)

Spec == Init /\ [][Next]_vars

-----------------------------------------------------------------------------
Frames == [kind : {"import", "call"}, unit : Units, n : Nat, env : Units, saved : Seq(Units),
           cur : Units, ns : Units]

\* The type of every variable; every thread is in the main program at the bottom,
\* and the debugger has been sent no more than there is.
TypeOK ==
    /\ cache \subseteq Modules
    /\ in_progress \in Seq([unit : Modules, n : Nat])
    /\ global_env \in Units
    /\ current \in Units /\ namespace \in Units
    /\ output \in Seq(Units)
    /\ cursor \in 0..Len(output)
    /\ pc \in [Threads -> {"run", "looked", "absent", "read", "raised", "ended", "failed", "closing", "dropping"}]
    /\ frames \in [Threads -> Seq(Frames)]
    /\ \A t \in Threads : frames[t] # <<>> /\ Head(frames[t]).unit = Program
    /\ asked \in [Threads -> Units]
    /\ \A t \in Threads : asked[t] \in Modules <=> pc[t] \in {"looked", "absent", "closing", "dropping"}
    /\ search \in [Threads -> [at : Nat, met : Units, own : Nat]]
    /\ printed \in Seq(Units) /\ shown \in Seq(Units)
    /\ loaded \cup reloaded \cup accused \subseteq Modules
    /\ users \subseteq Threads
    /\ imports \in Nat /\ calls \in Nat
    /\ misread \in BOOLEAN /\ doubled \in BOOLEAN

\* What needs that one thread does all the importing, calling and printing; the
\* resolver and the runtime's context are not made for more.
OneThread == \E t \in Threads : users \subseteq {t}

\* The unit whose text is being run, and the innermost one that has a namespace,
\* in the first n of some frames.
TextAt(fs, n) == fs[Max({i \in 1..n : fs[i].kind = "import"})].unit
SpeakerAt(fs, n) ==
    LET named == {i \in 1..n : fs[i].unit # Program}
    IN  IF named = {} THEN Program ELSE fs[Max(named)].unit

TextOf(t) == TextAt(frames[t], Len(frames[t]))
SpeakerOf(t) == SpeakerAt(frames[t], Len(frames[t]))

\* With one thread the modules in progress are exactly those being imported, each
\* once, also when imports fail half way: so a failed import can be tried again, and
\* the remove of import_module never misses.  docs/language_spec.md: "cycles are
\* detected and reported with E008": every import that is refused does close a cycle.
\* With any threads, as long as no module has been let in twice at once, no import
\* removes what another one put in the list, however the list shifts under the
\* searches: all that is being imported is there.
InProgressIsHeld ==
    /\ OneThread => /\ \A i, j \in DOMAIN in_progress : in_progress[i].unit = in_progress[j].unit => i = j
                    /\ Listed = UNION {InHand(t) : t \in Threads}
                    /\ accused = {}
    /\ ~doubled => \A t \in Threads : InHand(t) \subseteq Listed

\* When a unit goes on after an import or a call, however that ended and however
\* imports and calls were nested in it, the runtime's context is the unit's own
\* again: relative imports, definitions and error texts of its later statements
\* are resolved in the right module.
ContextRestored ==
    OneThread =>
        \A t \in users : pc[t] = "run" => /\ current = TextOf(t)
                                          /\ global_env = TextOf(t)
                                          /\ namespace = SpeakerOf(t)

\* What the program has printed so far, put together from the buffer and from what
\* the imports under way have saved.
SavedOutput(fs) == FlattenSeq([i \in DOMAIN fs |-> fs[i].saved])

Complete(t) == pc[t] \in {"run", "raised", "looked", "absent", "closing", "dropping"} => SavedOutput(frames[t]) \o output = printed

\* The comment of import_module: "Nested compilation resets these buffers.  Keep
\* the caller's output and its debugger cursor alongside module output."  No line
\* is lost, repeated or moved by an import.
ImportsKeepOutput == OneThread => \A t \in users : Complete(t)

\* What the debugger is sent is what is printed, in any case.
DebuggerStream == OneThread => shown = printed

\* No line of the program is lost, repeated or moved by an import, as long as the
\* text of every imported module parses; and the debugger is sent all lines once.
OutputKept == (~misread => ImportsKeepOutput) /\ DebuggerStream

\* "Re-importing a module returns the same namespace": the text of a module runs to
\* its end at most once.
LoadedOnce == OneThread => reloaded = {}
=============================================================================
