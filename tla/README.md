# TinyLanguage: a verification development

TinyLanguage is a small dynamic language, implemented in Python under
`src/src/`: a lexer and parser, a tree-walking evaluator on a `Runtime`, code
generators, a native VM, a standard library, a module resolver, a package
manager, a debugger and a program repository.  Most of it is sequential.  What
is hard to test is, first, where programs run *concurrently*: `spawn` starts a
Python thread for every task, and these threads share one `Runtime`, with its
scope list, its heap tables, its channels and the fields of its task handles,
only partly behind locks.  Second, where *processes and threads of the tools*
meet: the debug adapter's reader, watchdog and program threads, the daemon and
the importers of one database, the package commands that are killed between two
writes.  Third, the calls and imports that replace the runtime's context and
have to put it back, or copy whole graphs of blocks and objects.

Paths below are relative to the repository; `runtime.py`, `eval.py` and
`stdlib` stand for `src/tiny_language_runtime.py`, `src/tiny_language_eval.py`
and `src/stdlib/__init__.py`, `adapter.py` for
`vscode-extension/python/tiny_debug_adapter.py`.

## 1. The system

### The parts modelled

| Part | State | Operations | Interacts with |
|---|---|---|---|
| **Channels** (`stdlib`, `_Channel` 119-190) | `buffer`, `capacity`, `closed`, the wait sets of the conditions `not_full` and `not_empty`, one lock | `send`, `recv`, `close` | called by any thread; a blocked call blocks the task |
| **Tasks and tokens** (`runtime.py` 58-102, 1764-1872) | `SpawnHandle`: `cancelled`, `done`, `result`, `error`; `CancellationToken`: `cancelled`, `reason`, `_linked`, `_lock` | `spawn`, `cancel`, `join` (plain, with timeout, with cancel, as status), `Async.cancel`, `Async.link` | `eval_stmt` looks at the flag before each statement; task blocks call `join` |
| **Task blocks** (`runtime.py` 105-113, 186-200; `eval.py` 235-253) | `_task_scopes`, one list for all threads; the handle list of each scope | entering a block (push), `spawn` (register in the innermost scope), leaving (pop, join with timeout and cancel) | `_start_task` registers after the worker has been started |
| **Module imports** (`src/tiny_language_runtime_modules.py` 33-126, `src/tiny_language_api.py` 868-926) | resolver: `cache`, `_in_progress`; runtime: `global_env`, current path, namespace and source, `output`, the debugger's cursor | `import`, nested; the end or failure of a module's text; `print` | statements of any thread import; `try` catches a failed import |
| **Calls** (`runtime.py` 202-377, 1725-1762) | the namespace of the running function; the stack of protected bindings; with `--copy-on-call` the copies | a call, its return or error; `heap_set`, `field_set`, which ask the bindings; `delete`, `Collections.push` and `pop`, `Random.shuffle`, `Map.set` and `delete`, which do not | allocates copies on the heap; nested in imports |
| **Debug adapter** (`adapter.py` 140-1303, `src/tiny_language_runtime_debugger.py`) | session flags, `_breakpoints`, `_command_queue`, the current thread and debugger; of a `Debugger` its breakpoints, `force_pause`, `pending_step`, `last_location` | the client's requests, the watchdog, a run, a stop with its timeout | the reader, the watchdog and program threads share everything without a lock |
| **Program repository** (`src/tiny_program_repository_db_adapter.py`, `src/tiny_program_daemon.py`) | the SQLite tables, a connection's open transaction | `register_program`, `add_statement`, `source_to_db`, `step`, `find_unreachable_pcs`, the daemon's `create_program` | processes share the file, with SQLite's one writer |
| **Packages** (`src/tiny_pkg_resolution.py`, `src/tiny_pkg_cli.py`, `src/tiny_language_module_resolution.py` 92-212) | `tiny.toml`, `tiny.lock`, `vendor/`, the download cache; outside: the registry, checkouts | `init`, `add`, `remove`, `update`, `resolve`, `vendor`; the lookup of `import pkg.<name>` | every command begins with what the last one left, complete or not |
| **Heap** (`runtime.py` 598-856) | `heap`, `next_ptr`, `allocations`, `freed_allocations`, `freed_ptrs`, `heap_cell_types`, `ptr_tags` | `new`, `heap_new`, `heap_get`, `heap_set`, `delete`, `tag`; of the library `Collections.push`, `pop`, `Random.shuffle` | each takes `_lock` once to resolve and once again to change something; the library takes none and tells the tables nothing |

What makes each hard, and what correct means:

* *Channels.*  Condition variables: `notify` wakes one thread, which has to
  take the lock again and may lose the slot or value to a thread that has just
  called.  Correct: values keep their order, no wakeup is lost, `Null` from
  `recv` means that nothing is or will be left, `close` frees everybody.
* *Tasks and tokens.*  A handle's fields have no lock: the worker writes
  `result` or `error` and then sets `done`, while others test `done` and then set
  `cancelled`, or read the fields one after the other.  Correct: exactly one of
  result and error is there when `done` is, what a join has told stays true, a
  status is not a mixture of two moments, a linked task does not slip through a
  token's cancel, the first cancel's reason stands, a cancelled task stops.
* *Task blocks.*  "Innermost" is the scope pushed last by any thread, so
  threads register in and pop each other's scopes; the loop of joins is left by
  the first error; `add_handle` may come after the loop.  Correct would be what
  `docs/structured_concurrency.md` says; the list must balance, and leaving a
  block must end.
* *Module imports.*  An import runs the module on the importer's `Runtime` and puts
  back afterwards what it has replaced, at any depth and however it ends.
  Correct: the importer's context and output are as they were, plus the module's
  lines; a failed import can be tried again; only true cycles are refused; a
  module runs once.
* *Calls.*  The namespace of the caller comes back after a call, also when calls and
  imports nest and errors pass through them.  With copy-on-call an argument
  arrives as a copy that shares nothing with it, however it is linked, and while
  the call runs no `heap_set` or `field_set` may change the original, through whatever alias.
* *Debug adapter.*  Commands are for whichever thread takes them, breakpoints reach
  the debugger on two ways, a stop ends by itself.  Correct: no command is left for
  a later stop, the debugger has the lines the client set, a launch starts,
  and a program that timed out runs on.
* *Program repository.*  An import is many transactions.  Correct: what is stored is
  always a beginning of the source, nothing is stored twice, and a statement that
  is reported as unreachable, once its program is imported, is never executed.
* *Packages.*  Correct: the lockfile names what the manifest asks for, with the newest
  versions allowed; after a completed `vendor` the packages are there and complete,
  and imports depend on nothing outside; the ranges of constraints mean what the
  operators say.
* *Heap.*  The block may be deleted, filled, tagged, pushed to or popped from between
  an operation's two halves.  Correct: the five tables agree, freed blocks are not
  revived and `heap_set` never writes them, a checked index is still good when it is used
  unless the list became shorter, and `heap_set` keeps to the type it has recorded.

### The other parts

`PROJECT.json` lists every component.  The *native VM* (its own copies of heap,
tasks and scopes) is planned.  Not planned: lexer, parser, linter, formatter,
language server, code generators and command lines.  They are pure functions over
texts and trees, or input and output; a model of them would be a second
implementation.  They are most of the source, and the larger half of that is the
stitched copy of the other files: that is why the modules map to a few
per cent of all lines, but to most of the lines with shared state.

## 2. The modules

    AsyncQueue          what a channel promises: a bounded queue
      ^ implemented by (refinement mapping, QueueSpec)
    Channel             send, recv, close at the grain of the lock
      ^ extended by
    ChannelWorkers      cancellable workers and free threads using a channel
    ChannelProofs       theorems about Channel, and about ChannelWorkers from those

    Tasks               handle, worker, clients and tokens, one field access a step
    TasksProofs         theorems about Tasks
    TaskScopes          scope list, registration, join loops (a join is one step)
    TaskScopesProofs    theorems about TaskScopes
    Imports             import_module, compile_and_run and calls, nested, by any thread,
                        the in-progress list searched path by path
    ImportsProofs       theorems about Imports
    CopyOnCall          copies of arguments, protected bindings, guarded and other writes
    DebugAdapter        reader, watchdog and program threads of a debugging session
    DebugAdapterProofs  theorems about DebugAdapter
    Repository          processes that import, generate and execute programs
    RepositoryProofs    theorems about Repository
    SemVer              versions and constraints, and what they should mean
      ^ extended by
    Packages            manifest, lockfile, vendor/, registry and pkg. imports
    PackagesProofs      theorems about SemVer and Packages
    Heap                tables of the manual heap, two steps per operation, and
                        the library's writes past them
    HeapProofs          theorems about Heap, and about CopyOnCall

    MC<module>          finite instances for TLC

Definitions called `Bug...` are plausible mistakes in the operation that
follows them.  No specification uses them: each property is known to fail when
its operation is replaced by one of them.

**Channel.**  An action is one stretch of a method under the lock: from the call
or from the return of `wait` to the next `wait` or the end.  `pc[t]` says in which
method a thread is, `not_full` and `not_empty` are the condition's waiters (a
thread in a method but not in the set has been notified), `arg[t]` the value it
sends.  `OneFewer` is `notify`: some waiter is removed.  `sent`, `received` and
`gotNull` are histories.  A capacity of 0 or less is kept as it is
(`max(0, capacity)`).  `AsyncQueue` has three operations, with no waiting inside;
a `send` that waits maps to a stutter.

**ChannelWorkers** adds the statement loop: `CheckStatement` is
`_raise_if_spawn_cancelled`, after which the worker is in a statement (`checked`).  A
statement may call the channel any number of times (`CallChannel` leaves it checked:
`send(c, recv(c))`, `while (recv(c)) {}`), contain statements, which are checked in their
turn, and end, with the function or not (`EndStatement`).  So a cancelled worker may begin
any number of calls before its next check, and what is promised is that it ends once the
channel is closed (`CloseEndsCancelled`).  Nothing connects a cancel with the channel,
because nothing in the code does.  The values sent are not null; a program that sends null
cannot tell it from the `Null` of a drained channel.

**Tasks.**  `wpc[h]` walks through `_run_spawn`: entry check, statements, the
check after return, `StoreResult`, `SetDone`.  A client's `cpc` walks through
`cancel_handle` (test `done`, set `cancelled`), `join_handle` (wait, time out or
wake, then return or build a status by two reads of `cancelled`) and the token's
`cancel` under its lock (reason, flag, loop over the linked handles).  `link` is
one step since all it reads is under that lock, except a flag it only sets.
A cancelled worker in a nested call may end with an ordinary error or even be
caught by the program, because `eval_expr` wraps exceptions of calls.  Values
and errors are reduced to their kind.

**TaskScopes.**  `handles[s]` is the list of the scope object `s`, `scopes` the
shared list.  `_start_task` is three steps: `StartTask` (the worker runs from
here), `RegisterTask` (read the innermost scope), `AddHandle`.  CPython 3.11,
the oldest version the project supports, switches threads at calls and backward
jumps, so testing the list and reading its last element is one step and the
call of `add_handle` lies between two.  `ExitBlock` pops, `JoinNext` is one round
of the loop over the live list, `AfterBlock` its end.  That the test and the pop
of `_pop_task_scope` can be one step follows from `ScopeBalance`: a thread about to
pop has an open block, so the list it tests is not empty.  A join is one step here; `Tasks`
has its inside.  The history variables record what the program text says
(`blocks`, `leaving`, `left`, `outer`, `users`) and how handles were treated (`late`,
`cut`, `expired`).

**Imports.**  `frames[t]` holds the units a thread is inside of, each with what its
import has saved.  A module's text is open: at each moment it may print, import,
fail, catch or end, so every text over the modules is covered.  A step goes from one
point where the code looks at or replaces shared state to the next: the cache
(`LookUp`); the search of the in-progress list, one comparison of two paths after the
other (`Compare`), since `Path.__eq__` is Python code and threads switch in it; what the
search comes to (`Circular`, `NotInProgress`); the append and the saved copies
(`StartImport`); parsing (`Misread`) or the context and the empty buffer (`RunModule`); the
finally of `compile_and_run` (`EndModule`); the inner finally clause of `import_module`
(`FinishImport`); and `list.remove` in the outer one (`LeaveImport`), which searches by the
same comparisons, takes the very object it looks for for equal without one, and deletes at
the index it has come to, whatever is there by then.  Path, namespace and source are set together and are one variable;
`error_messages` goes the way of `output` and is left out.  `Call` and `Return` are
`_invoke_function` and `call_method`: a function brings its module's namespace, which its
finally clause takes back.  A function of the main program has none
(`fn.namespace or prev_namespace`), so it runs under the namespace of whoever calls it;
`ContextRestored` speaks of the innermost unit that has one.

**CopyOnCall.**  A value is a number, a pointer or a reference to an object.  The code
has no pointer type; `is` records what the program means by a number, and no operator of
the code reads it.  `content` maps binding keys to the cells of blocks and the fields of
objects; what a program can reach is open, as if every block had a global name.
`binding` is a call whose arguments are being bound.  `_deep_copy_value` is recursive, and its
activations are a stack, under them `_bind_parameters_to_env`.  A step is what the code does with one
value: `AsItIs` passes it on, `CopiedBefore` finds it in the memo, `BeginCopy` makes the
copy and goes into it, `EndCopy` stores it and hands the memos back, or loses them
(`MemoAfter`).  Each copied value is stored at once (`Partly`: a block has all its cells from the
start, an object gets field after field), because a plain number may name a half-made copy, which is
then copied itself.  (The fields of an instance of a class appear together in the code.)  `Bypass` is
what the writes of the library and `delete` have in common: they ask no binding.  `Enter` and `EndCall` push and pop the protected bindings.  The
histories of `binding` (`heap`, `copies`) and of a frame (`reached`) are for the properties.

**DebugAdapter.**  `reader`, `watchdog` and `thr[t]` are the places of the threads; a
request is split where it stores one thing before it reads another that a second thread
uses; so is `_start_program_thread`, into the check, the store of the new thread, and the start of the
thread that is stored by then, which fails for whoever comes second.  `NamespaceOf` is
`_namespace_for_path`, any map from files to namespaces; a `Debugger` has lines per namespace, and a
module may run under a namespace that no file maps to.  A run has a `Debugger` and may spawn tasks, which stop at it too.  The queue's
condition variable is Python's `Queue` and a step here.  `Statement` is one that stops; others
change nothing.  Requests that only read (stack, scopes, variables, evaluate) are left
out, and so is the Python mode.  A client sends continue and steps only when it has been told
of a stop: without that it would queue commands for later stops as it likes.

**Repository.**  `db` is what is committed, `draft` what the connection with the open
transaction sees, `lock` that connection.  An action is what happens between two commits.
A writer that finds the lock taken either gets it before SQLite's timeout, which is the
action being taken later, or fails.  `walker` is an execution by `step`.  `Report` is a
`find_unreachable_pcs`; the history keeps what it lists of programs that nobody is importing
(`ImportGoesOn`).  Statements keep their kind and
label; conditions are open.

**Packages.**  A command is a sequence of steps, each of which writes one file, directory
or archive; `cmd` says how far it is.  `Crash` kills it before, or in the middle of, the
step.  A registry version is served as a directory, an archive or a URL with a cache
(`DistKind`).  The registry replaces an archive before its index, publishes and withdraws.
`RootsOf` and `Imported` are what an import would find at any moment.  The hash of
the manifest is the manifest.  One registry, no several processes at a time; the
version a directory declares in a `tiny.toml` of its own is taken for the missing one.

**Heap.**  `pc` is "idle" or the second half a thread is about to do; `ptr`, `idx`,
`val` keep what that half uses.  `cells[p]` is the list object, which outlives the
block for a thread that has resolved it.  `push`, `pop` and `shuffle` get hold of that object
(`LibraryCall`) and change it in a second step, under no lock; a shuffle is any number of
exchanges.  `shortened` tells which threads checked an index of a list that has become shorter
since.  A failing first half only records an
error and is left out.  Indices are counted from 1 instead of 0.

## 3. The runs

| Run | Instance | Shows |
|---|---|---|
| `channel_workers` | 2 free threads and 1 cancellable worker, 2 values, capacity 2, at most 4 sends; fair | `NoLostWakeup`, `NullMeansDrained`; `CloseEndsCancelled`; implements `AsyncQueue` (`QueueSpec`); `CloseWakesAll`, `ValuesMoveOn` |
| `tasks_handles` | 1 task, 2 clients, every kind of call; fair | `OneOutcome`, `JoinTellsTheTruth`; `CancelledStops`, `TimedJoinReturns` |
| `tasks_tokens` | 2 tasks, 2 clients, 1 token; fair | `NoHandleEscapes`, `FirstCancelWins`; `CompletionWins`, `TokenStopsLinked` |
| `scopes_shared` | main and 2 tasks, all with blocks, all failing, at most 3 blocks; fair | `ScopeBalance`, `RegisteredSettles`, `AloneKeepsPromises`; `NoTimeoutRaises`, `ExitEnds` |
| `heap_tables` | 2 threads, 1 block of at most 2 cells, 1 label; thread symmetry | `TypeOK`, `Bookkeeping`, `ReadsLand`; `FreedStaysFrozen`, `TypesStable` |
| `imports_context` | 2 threads, 3 modules, one of which does not parse, 3 steps (lines, imports and calls); symmetry | `TypeOK`, `InProgressIsHeld`, `ContextRestored`, `OutputKept`, `LoadedOnce` |
| `debug_session` | 2 runs, the first with a task; 2 files of one namespace and a namespace without a file, 1 line; 3 requests after initialize; fair | `CommandsMatchStops`, `BreakpointsAgree`, `ConfiguredStarts`; `TimeoutLetsRun` |
| `repository_imports` | 2 processes, 2 names, 2 programs of 3 and 4 statements with a branch, jumps forward and back and dead code; symmetry | `StoredIsABeginning`, `DeadCodeIsDead` |
| `packages_vendor` | 1 package in two sections, 3 versions served in three ways, 2 contents, 4 commands, 3 changes outside | `VendoredIsWhole`; `ImportsStay`, `NewestPinned` |
| `copy_calls` | 3 blocks and 2 objects of one cell or field (one more by `push` or a write), the number 2, 2 nested calls of 1 argument, 2 writes, of the library or not | `CopiesAreFaithful`; `WritesAreKeptOut` |

Runs in which TLC finds a disagreement between the code and what the repository
says of it (the full quotations are in `PROJECT.json`, "findings"):

| Run | The text | The code |
|---|---|---|
| `imports_output` | comment in `import_module`: "Keep the caller's output" | the failed import of a module that does not parse repeats all earlier lines |
| `copy_aliases` | `language_spec.md:221`: writes "through other aliases fail with a runtime error" | `Collections.push`, `pop` and `Random.shuffle` change a protected list, `Map.set` and `delete` a protected object, and `delete` frees a block |

Disagreements seen in the models, or beside them, that have no run of their own.
Channels, tasks and blocks:

* with capacity 0 `send` waits until the channel is closed, also when a receiver waits
  (docstring of `_Channel`: "rendezvous-style");
* a cancelled task blocked in a channel stays there (`structured_concurrency.md:45`:
  channels "abort blocked senders/receivers");
* the first error ends the loop of joins of a block, and the siblings run on
  (`structured_concurrency.md:16`: "all linked tasks are joined");
* a handle added after another thread has left the scope is neither joined nor
  cancelled (docstring of `TaskScope`: "must resolve before exiting a task block");
* `link` on a cancelled token marks a *finished* handle as cancelled (`runtime.py`
  98-100; `structured_concurrency.md:24` calls it a no-op).  `NoHandleEscapes` does not ask
  for it, nor for its absence: it says that a linked handle is cancelled or has finished;
* a cancel that tested `done` too early marks a task as cancelled after a join has
  returned its value (`runtime.py` 1809-1812; the same line: "completed handles
  remain complete").  `CompletionWins` excepts such cancels, and links to a cancelled token;
* a task cancelled by its block's timeout is not joined afterwards (`runtime.py`
  1855-1859; `language_spec.md:191` says "cancelled and joined");
* a task spawned outside every block is taken and cancelled by a block another
  thread has open (`OuterTasksSurvive` without the condition of
  `AloneKeepsPromises`; `test_concurrency.py:201` checks it in one thread).

Imports and calls:

* with two threads importing, refusals of imports that close no circle, `LoadedOnce`,
  `ContextRestored` and `OutputKept` fail without the condition `OneThread`
  (`language_spec.md:261`); calls of several threads restore each other's namespace.
  Both may find a module absent from the in-progress list before either appends it, and run
  it at the same time; then the `remove` of one takes the other's entry.  And a search that
  others shift the list under may come to its end: the `remove` raises a `ValueError` at the
  import statement, and a module that is not in progress any more stays listed
  (`InProgressIsHeld` excludes this for one thread only; for several it says that nothing is missing
  from the list);
* with copy-on-call, a number that equals the number of a live block is replaced
  by the number of a copy of that block: a function that is passed 1 prints 2 while
  block 1 is live (`runtime.py` 221-231, 261-282).  `CopiesAreFaithful` lets such a number come
  out as another; the number of the copy may also protect a block of the callee's own;
* sharing between arguments, or between the first parts of one, may be lost, because an
  empty memo is replaced (`memo or {}`, 250-251); a block that holds a map arrives
  as a list of its keys (266).

Heap:

* a `Collections.pop` between the index check of `heap_get` (780-789) and the read (790), or
  the write of `heap_set`, makes it raise an `IndexError` (`ReadsLand` excepts lists that became shorter);
* a `push`, `pop` or shuffle that got hold of the list before a `delete` changes the freed block;
* only `heap_set` records and checks types: what `heap_new`, `push`, a shuffle, or a `pop` and a
  `push` put into a cell may have another type than the one recorded for it, and a copy made for a
  call gets the types recorded for the original (276-282).  `TypesStable` is about `heap_set` alone;
* the sizes in `heap_leak_report` are those the blocks were allocated with, whatever was pushed.

Debugging:

* breakpoints are kept per namespace, and `_namespace_for_path` (413-419) gives every file outside
  the working directory its bare name: files with one name replace each other's breakpoints, and
  which file's are there after a rerun is the order of a dictionary.  `BreakpointsAgree` says
  only that they are those of one of them;
* an imported module runs under the name it was imported by, or under its dotted
  path from another root, so the breakpoints of its file may be under a namespace that nothing runs
  under and never stop (`debugger_workflows.md:121`: "Any line breakpoint in a TinyLanguage
  source file will pause execution");
* when the reader and the watchdog both get through the checks of `_start_program_thread`, both may
  start the same thread (820-821): the second `start` raises a `RuntimeError`, which ends the watchdog's
  thread, or the adapter when it is the reader's;
* a comment of the watchdog (`adapter.py` 1179) wants a launch to start when the client
  sends no `configurationDone`; after a warning about a late `initialize` or `launch` the
  watchdog never gets there;
* `debugger_workflows.md:145` promises `<not paused>` for watches; the last snapshot is kept
  after the program has gone on;
* `CommandsMatchStops` has to except timeouts and `disconnect`: the `continue` that comes too late
  for a stop that timed out ends the next one;
* a step ends at whichever thread of the run gets there, since a run has one `pending_step`;
* `setBreakpoints` for a new file in the middle of `_sync_all_breakpoints` ends the program's
  thread (a dictionary changed during iteration) with no `terminated` event;
* a `pause` before the debugger exists is lost; the watchdog and the reader may each start a
  thread of its own, two runs side by side; a second `configurationDone` runs a finished program again.

Repository:

* the daemon "automatically generates .tiny files at regular intervals"
  (`tiny_program_daemon.md`), but ends with `ValueError` as soon as an idea comes round again
  with a database; the file is written before the duplicate is noticed;
* a failed `register_program` or `add_statement` leaves its transaction open: other
  processes are locked out, and a later commit stores the statement of an unsupported
  kind that `add_statement` refused (`StoredIsABeginning` excepts it);
* a report of unreachable statements made while the program is being imported can list one that a
  statement still to come makes reachable: of `0: goto b, 1: label a, 2: label b, 3: goto a` it lists
  pc 1 until pc 3 is there.  `DeadCodeIsDead` is about reports of programs that nobody is importing, those
  whose import was cut off included; of the others it says that what they list has not been executed yet.

Packages:

* `package_module_roadmap.md:351-352` says `vendor` uses only the checksums of `tiny.lock`; it
  uses those of the registry's index at that time, and none for directories;
* an override of a dependency with a range (`"^1.2.0"`) fails with "Invalid SemVer";
* a package in two sections makes `vendor` without `--force` fail always;
* a range with a registry that is not the default one is never found;
* a `pkg.` import that is locked, without `vendor/`, falls back to local modules;
* `add` whose resolution fails leaves the manifest changed; a kill during the write of a
  manifest or lockfile leaves it empty.

### Bounds, and why they are enough

* *Channel.*  A lost wakeup needs a sleeping thread, a notified one and a third
  that overtakes it, which three threads can be.  There are more sends than slots, so the
  buffer fills, drains and fills again.  `MaxSends` caps the histories.
* *Tasks.*  Every race on a handle is between the worker, one client that sets the
  flag and one that reads, so two clients suffice; two tasks are needed only for
  the loop of a token's cancel.  `Uses` selects the calls of the clients: the
  token run leaves joins out, since no token property speaks of them, and its
  clients still cancel single handles.
* *TaskScopes.*  Two blocks nest or lie in two threads; with three, two threads
  cross while a third scope is below.  Two tasks give a block a sibling to lose and
  let both be blockers.  `MaxBlocks` also bounds the run: tasks are spawned once.
* *Imports.*  `MaxSteps` counts the lines, imports and calls of all threads: three are two
  nested imports and a line before, inside or after them, an import around a call, a call around an
  import, or an import of each thread beside a third that shifts the list.  Two modules that parse
  close a cycle, the third fails at once.  Without the bound the buffer would grow for
  ever, since failed imports may be repeated.  The second thread gets its turns
  between any two steps of the first; what it breaks is excluded by `OneThread`,
  except in `TypeOK` and `InProgressIsHeld`.  `imports_output` has one thread and five steps.
* *Heap.*  A block shows everything about itself, and an integer that is its pointer before, while and
  after it is live; blocks touch each other through nothing but such integers (the theorems are for any
  number).  Two cells are needed to pop one and keep one.  Two threads suffice for one operation
  between the halves of another; two threads can also delete one block twice, and pop a
  cell another has checked.
* *DebugAdapter.*  Three requests are a launch, its configuration and one of breakpoints, a
  command, a pause or `disconnect`; or, since the watchdog completes the configuration too, a launch
  and two of those.  So breakpoints set for two files of one namespace before a run are covered, and a second
  run after a `configurationDone`; breakpoints for two files *and* a second run are not, nor is a fourth
  request in general, and are left to the theorems.  Two threads of one run wait on one queue, and a second
  run begins after or beside the first.  The stack has depth 0: the depth of a step only decides
  which statements stop, and any may.
* *Repository.*  Two processes are one that writes and one in its way.  The programs have
  a condition that falls through or jumps, a jump over dead code, labels, and a jump back to what was dead
  before its last statement came.
* *Packages.*  Four commands are an add, a vendor that fails, another, and a change of the lock;
  three changes publish, replace and index a version, or take away a checkout.  The three
  versions are apart by patch and by minor, below 1.0, where caret ranges differ, and 0.1.9
  and 0.1.10 are in the wrong order as texts.
* *CopyOnCall.*  Blocks and objects that refer to each other or to themselves, shared
  parts within one argument, numbers of blocks that were freed, and a second call whose argument was
  protected by the first.  `Numbers` is the 2, which names the second block: an original, a copy, or a
  half-made one.  Parts shared between two arguments are left to the theorems.

`repository_imports` checks deadlock.  No other run does: a program may end with every thread idle, or, as the
findings show, blocked in a channel.

### Fairness

* `ChannelWorkers`, `Tasks`: weak fairness of each thread's next step once it can be
  taken (`ResumeThread`, `Proceed`, `Work`, `Continue`).  `Proceed` also says that a statement
  none of whose channel calls is blocked ends or comes to a statement inside it.  That is not so of a
  loop with an empty body and a condition that is always true, in which no flag is looked at: for
  programs that contain one, `CloseEndsCancelled`, `CancelledStops` and `TokenStopsLinked` say nothing.  Threads are scheduled by the operating
  system, and no lock is held across a blocking call.  No fairness is assumed of
  anything a program decides: that it sends, receives, closes, cancels, or that a
  native call a task is blocked in returns (`Unblock`).
* `TaskScopes`: weak fairness of `Leave`; each join of the loop has a timeout, so a
  thread leaving a block always gets on.
* `DebugAdapter`: weak fairness of the reader's and watchdog's steps and of a stopped
  thread's; a wait for a command ends by its timeout.  The client owes no request.
* Weak fairness is enough because no step is disabled by others for ever; a notified
  thread of a channel that finds the slot taken goes back to wait, and the
  properties do not promise it more.

## 4. The proofs

For every set of threads, values and every capacity (`ChannelProofs`):
`ChannelTypeOK`, `ChannelFifo`, `ChannelNoLostWakeup` (from one theorem for senders and one for
receivers), `ChannelNullMeansDrained` and `ChannelRefinesQueue`.  Assumptions: those of the
module, and that the set of threads is finite (`NoLostSender` counts).  The
wakeup invariants are not inductive alone.  A `recv` frees a slot and notifies one
sender, so the number of free slots and of notified senders grows together, but
only if a thread is in a wait set exactly while it is inside that method and no
thread is in both; and a notified sender that finds the buffer full goes back to
sleep, which is safe because then there is no free slot to match.
`NullMeansDrained` needs that a closed channel accepts nothing more.  The
refinement uses the same invariant, and each step of the channel maps to one of
the queue or to none.

For every set of threads, labels and bounds (`HeapProofs`): `HeapTypeOK`,
`HeapBookkeeping`, `HeapReadsLand`, `HeapFreedStaysFrozen`, `HeapTypesStable`.  The strengthening
(`Pending`) says what an operation still knows in its second half, though it does not look again:
that its pointer was allocated (so it is below `next_ptr` and can never be handed
out again), and that its index lies in the list object unless the list has become shorter since.
From this a late `Delete` or `Set` is seen to be harmless, and a late `Push` to touch nothing but the
list.

For calls of any depth, any number of arguments, blocks and objects of any size (`HeapProofs`):
`CallsKeepWritesOut` and `CallsCopyFaithfully`.  They are in the module of the heap because what a
call copies and protects are its blocks.  The stack of activations is what the induction is about.
`Keeps` says for the first that all a protected key holds has been met, and is protected, or is being
copied by an activation that has met it so far; so at `Enter`, when no copy is unfinished, the protected
keys are closed under what they lead to, and contain all that the arguments reach.  That holds of programs that use
numbers as pointers too, and whatever the library has done to the originals in between calls.
`Copies` is for the second.  It speaks of what a program means by its values (`is`): a plain number may correspond to
another one if it names a block, and may name a half-made copy of the same call, which is then copied itself; of such copies
of copies nothing has to be known.  Every copy of what was there when the call began corresponds to it, cell by cell, as soon as it
is off the stack; what was there leads to nothing new, and copies are new; and what is being copied is in every memo above it.  The last is where
`memo or {}` could do harm, and does not: a memo that is handed down from inside a copy is never empty for that kind.  A
block that holds nothing but objects hands down an empty memo of objects, and then copies may be made twice, but they
are still copies.  That copying ends is shown as far as this: it never comes to the same key again before it is done.
`Reach` and `SideBySide` follow a graph in rounds; the lemma about them (`SpreadWithin`) is that
what is closed under the steps contains all that the rounds reach.

For all versions (`PackagesProofs`): `RangesMeanWhatTheySay`, that the half-open range which
`_parse_constraint` computes for an operator holds exactly the versions the operator
is documented to allow, and `MatchesIsAllowed` for whole constraints.  No induction is
needed; the bound of a caret is split by its first number that is not zero.

With any cancellable workers among the threads (`ChannelProofs`), `WorkersNoLostWakeup`: every step of
`ChannelWorkers` is one of `Channel` or leaves the channel alone (a lemma, and by the shape of the
definitions), so what is proved of the channel is true of it too.

For every set of tasks, clients and tokens (`TasksProofs`): `TasksTypeOK`, `TasksOneOutcome`,
`TasksJoinTellsTheTruth`, `TasksNoHandleEscapes`, `TasksFirstCancelWins`, `TasksCompletionWins`.  The only assumption
is `TasksAssumption`, that `None` is no client and no task.  The invariant is a conjunction of what each thread may
rely on at its next access: how far a worker is tells what its handle holds
(`WorkerInv`), a token's lock is held by exactly the client whose cancel is under way, and
how far that is tells what the token holds (`TokenInv`), a handle that a cancelled token has accepted
is cancelled, finished, or still to be met by that client's loop (`EscapeInv`), and what a caller
has read remains true (`CallerInv`).  None of the four properties is inductive alone:
`NoHandleEscapes` fails between the flag of the token and the end of the loop.

For every set of tasks, every choice of the threads with blocks and any number of blocks
(`TaskScopesProofs`): `ScopesTypeOK`, `ScopesRegisteredSettles`, `ScopesAloneKeepsPromises`, `ScopesBalance`,
`ScopesNoTimeoutRaises`.  A scope has
one place, on the list or with the one thread that joins its handles (`OnePlace`), and what this thread's
loop has come past has resolved and stays so (`JoinedSoFar`); so a scope that leaves that place by the end
of a loop is settled, whoever pushed it, and a handle added later is counted as late.  For one thread
alone (`AloneInv`) the list of scopes has the length of the nesting of its blocks, and the scope at
each depth holds what was spawned in that block, except for a handle between start and `add_handle`, whose
scope is the innermost.  That no block cancels an outer task needs that a handle is in a scope only
after its task has started (`StartedFirst`).  `ScopesBalance` counts the open blocks of all threads: one that
opens adds one to the list and to the count, one that ends takes one from both, and the list cannot be empty
then since the block itself is counted.  `ScopesAssumption` is all that is assumed.

For any finite set of versions and any entries of a manifest (`PackagesProofs`): `PackagesNewestPinned`,
`PackagesVendoredIsWhole`, `PackagesImportsStay`.
The loop of `_select_registry_version` is a choice of the greatest version allowed; that there is one needs that
versions are ordered and finite.  `PackagesAssumption` says so, and that a constraint is what
`_parse_constraint` can return: an exact version stands alone, and the parts are numbers.  `VendoredIsWhole` is
inductive together with what a running vendor may rely on (`VendorOK`): the lockfile is still the one it read,
and the entries before the one it is at are whole, except those that share the directory it is filling just
now.  `ImportsStay` is then about one step: no user's edit and no change of the registry or of a checkout
touches `vendor/`, and every import is answered from there.

For any threads, modules, unparsable texts, and bounds on lines and depths (`ImportsProofs`): `ImportsTypeOK`,
`ImportsInProgressIsHeld`, `ImportsContextRestored`, `ImportsOutputKept`, `ImportsLoadedOnce`.  The invariant says
of every frame of a stack what it has saved: the environment, module and namespace of the frame below it
(`Context`), and a piece of the output such that the pieces of all frames and the text at hand, put together,
are all that was printed (`Pieces`).  Of the list it says that entries have numbers of their own (`Numbered`), and, until one
module has been let in twice at once, that each module is held by one import (`HeldOnce`), has one entry
(`OneOfEach`), and that the entry is there (`AllListed`): a search then either finds the entry it was
made for or, when the list has been shifted under it, nothing, since no other entry is equal.  With one thread
the list does not change under a search, and what the search has passed is not what it looks for (`AloneOK`);
so nothing is let in twice and no `remove` misses; and what is in progress is not in the cache.  The stack is of any depth: the sums over it are recursive functions, and the lemmas about them are
inductions over the natural numbers, made with sets instead of predicates.

For any number of runs, threads, stops and messages (`DebugAdapterProofs`): `LaunchStarts`
(`ConfiguredStarts`), `SessionBreakpointsAgree`, `SessionTimeoutLetsRun`, `SessionCommandsMatchStops`.  The invariant says what
everybody who shares the adapter may rely on.  The start of a launch is pending with the reader or the watchdog until
a run was stored (`LaunchStored`, `StartPending`), and the thread that is stored is one that was started or that somebody
is still to start (`StoredPending`).  Runs begin in order, and nobody touches the debugger of a
run that has not begun (`Untouched`).  All that is on the way to a debugger is a file and the lines stored for it
(`Loops`).  In a session without overlaps one run is alive, and its debugger has in each namespace what is stored of
one of its files, but for updates that are still on the way (`Apart`).  While the client is silent after a timeout there are no commands (`Silent`),
and once the breakpoints are cleared no reason to stop is left: nothing stored, nothing set in the
debugger of a live thread, and only removals on the way (`Calm`).

For any connections, names and programs (`RepositoryProofs`): `RepositoryStoredIsABeginning`,
`RepositoryDeadCodeIsDead`.  As long as no
statement of an unsupported kind is refused, a transaction that is left open has changed nothing, two
imports never have the same program, and each knows how much of its program is there.
`RepositoryAssumption` says that sources are finite sequences of statements.  For `DeadCodeIsDead` that is not
enough, because a statement of an unsupported kind may come in before the ones that are still to be imported, and
an execution may have begun before both.  A report that is kept is of a program nobody imports, to which nothing
can come any more that leads to what the report lists (`Settled`, `ReportedOK`).  The invariant there is that a label that is added comes
after all labels the program has (`ImportersOK`), so a goto keeps its target and a program only gains ways
(`WaysStay`), and that what an execution has been at lies in every set of pcs that contains the entry and that the
program, as it is now, does not lead out of (`WalkerOK`).  That the search of `find_unreachable_pcs` ends in
such a set (`ReachedCloses`) is an induction over its rounds: a round that adds nothing is the last one that
matters, and each other one adds a pc, of which there are finitely many.

A theorem whose induction is over a recursive function is proved from the well-foundedness of the natural
numbers: the set of the numbers for which it fails has a least member, and that leads to a contradiction.

Only model-checked: every liveness property (liveness under fairness is beyond the prover).  Every invariant
and every other action property of the runs is a theorem.

## 5. What is left out on purpose

* Texts of errors, statuses and reports, positions, return values of `cancel` and
  `link`.
* The interleaving of bytecodes inside one `list`, `dict` or `Event` operation: CPython
  makes these atomic, except where an operation calls Python code; so the search and the
  `remove` of a list of paths are steps of one comparison each in `Imports`.
* `asyncio`-style `await` is the same call as `join` (`eval.py` 381-403).
* The files the daemon writes, its validation of templates and its log.
* Several registries, the toolchain field, TOML's syntax.
* The Python mode, transports and console pipe of the debug adapter.
* The native VM's copies of handles and scopes; they look alike but never look at
  the flag between statements.  Planned.
* Spurious wakeups of conditions: `threading.Condition.wait` without timeout has none.

## 6. Plan

1. The native VM as a refinement of `Heap` and `Tasks`: its instructions on its own copies
   of the tables.
2. A composition of `Tasks` with `TaskScopes`: the scope's joins at the grain of handle
   accesses.
3. Copy-on-call together with concurrent tasks: the copy reads blocks cell by cell while
   others write them.
4. Blocks of the heap that hold a map, a set or a deque, and the types a deep copy records.
