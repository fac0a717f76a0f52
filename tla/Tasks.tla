-------------------------------- MODULE Tasks -------------------------------
(***************************************************************************)
(* The handle of a spawned task and the cancellation token, as the worker  *)
(* thread of the task and any number of client threads use them.           *)
(*                                                                         *)
(* The fields of a SpawnHandle are written by several threads without a    *)
(* common lock: the worker fills in result or error and then sets done,    *)
(* while cancel, join and a token's cancel read done and set cancelled.    *)
(* An action is therefore one access to such a field together with the     *)
(* thread-local work around it.  Only the fields of a token are protected, *)
(* by the token's own lock.                                                *)
(*                                                                         *)
(* Definitions named Bug... are mistakes one could make in the operation   *)
(* below them; the specification does not use them.                        *)
(***************************************************************************)
EXTENDS Naturals, FiniteSets

CONSTANTS Tasks,     \* the tasks a program may spawn, identified with their handles
          Clients,   \* the threads that cancel, join and link handles
          Tokens,    \* the cancellation tokens they share
          Uses,      \* bound: the kinds of calls on handles the clients make
          None       \* Python's None

ASSUME TasksAssumption == None \notin Clients \cup Tasks

VARIABLES
  \* SpawnHandle
  cancelled, done, result, error,
  \* the worker thread of each task
  wpc,
  \* CancellationToken: the flag, the reason, the linked handles, the lock's
  \* owner, and the handles its running cancel has not come to yet
  tokCancelled, reason, linked, lock, todo,
  \* a client: where it is, on which handle, in which kind of call, and the
  \* cancelled flag it has read for the status it is building
  cpc, on, mode, saw,
  \* history: what joins returned or raised, the statuses, the handles each
  \* token accepted, those it met already cancelled, and its successful cancels
  outcomes, statuses, accepted, late, winners

handleVars == <<cancelled, done, result, error>>
tokenVars == <<tokCancelled, reason, linked, lock, todo>>
clientVars == <<cpc, on, mode, saw>>
historyVars == <<outcomes, statuses, accepted, late, winners>>
vars == <<handleVars, wpc, tokenVars, clientVars, historyVars>>

-----------------------------------------------------------------------------
Init == /\ cancelled = [h \in Tasks |-> FALSE]
        /\ done = [h \in Tasks |-> FALSE]
        /\ result = [h \in Tasks |-> "none"]
        /\ error = [h \in Tasks |-> "none"]
        /\ wpc = [h \in Tasks |-> "unspawned"]
        /\ tokCancelled = [k \in Tokens |-> FALSE]
        /\ reason = [k \in Tokens |-> None]
        /\ linked = [k \in Tokens |-> {}]
        /\ lock = [k \in Tokens |-> None]
        /\ todo = [k \in Tokens |-> {}]
        /\ cpc = [c \in Clients |-> "idle"]
        /\ on = [c \in Clients |-> None]
        /\ mode = [c \in Clients |-> "none"]
        /\ saw = [c \in Clients |-> FALSE]
        /\ outcomes = [h \in Tasks |-> {}]
        /\ statuses = [h \in Tasks |-> {}]
        /\ accepted = [k \in Tokens |-> {}]
        /\ late = [k \in Tokens |-> {}]
        /\ winners = [k \in Tokens |-> {}]

Spawned(h) == wpc[h] # "unspawned"

-----------------------------------------------------------------------------
\* The worker: _run_spawn around _invoke_function.  Statements are the grain at
\* which the interpreter looks at the cancelled flag.

WorkerGoes(h, there) == wpc' = [wpc EXCEPT ![h] = there]

WorkerFails(h, e) == /\ error' = [error EXCEPT ![h] = e]
                     /\ WorkerGoes(h, "finally")
                     /\ UNCHANGED <<cancelled, done, result>>

\* _start_task: the worker thread is started.
Spawn(h) == /\ ~Spawned(h)
            /\ WorkerGoes(h, "entry")
            /\ UNCHANGED <<handleVars, tokenVars, clientVars, historyVars>>

\* Only the entry of the task looks at the flag.
BugCheckAtEntry(h) ==
    /\ \/ /\ wpc[h] = "boundary" \/ (wpc[h] = "entry" /\ ~cancelled[h])
          /\ WorkerGoes(h, "statement")
          /\ UNCHANGED handleVars
       \/ wpc[h] = "entry" /\ cancelled[h] /\ WorkerFails(h, "cancelled")
    /\ UNCHANGED <<tokenVars, clientVars, historyVars>>

\* _run_spawn looks at the flag before it calls the function, eval_stmt before
\* each statement (_raise_if_spawn_cancelled).
CheckCancelled(h) ==
    /\ \/ /\ wpc[h] \in {"entry", "boundary"}
          /\ ~cancelled[h]
          /\ WorkerGoes(h, "statement")
          /\ UNCHANGED handleVars
       \/ /\ wpc[h] \in {"entry", "boundary"}
          /\ cancelled[h]
          /\ WorkerFails(h, "cancelled")
       \* Inside a nested call eval_expr turns _SpawnCancelled into an ordinary
       \* error, which the program may even catch on its way out.
       \/ /\ wpc[h] = "boundary"
          /\ cancelled[h]
          /\ \/ WorkerFails(h, "raised")
             \/ WorkerGoes(h, "returned") /\ UNCHANGED handleVars
    /\ UNCHANGED <<tokenVars, clientVars, historyVars>>

\* A statement runs to the next one, blocks in a native call, ends the function,
\* or raises an error the function does not catch.
Statement(h) ==
    /\ wpc[h] = "statement"
    /\ \/ /\ \E there \in {"boundary", "blocked", "returned"} : WorkerGoes(h, there)
          /\ UNCHANGED handleVars
       \/ WorkerFails(h, "raised")
    /\ UNCHANGED <<tokenVars, clientVars, historyVars>>

\* The native call a statement was blocked in (a channel, a join) returns.
Unblock(h) == /\ wpc[h] = "blocked"
              /\ WorkerGoes(h, "statement")
              /\ UNCHANGED <<handleVars, tokenVars, clientVars, historyVars>>

\* Back in _run_spawn with the function's value: the flag once more ...
CheckReturned(h) ==
    /\ wpc[h] = "returned"
    /\ \/ cancelled[h] /\ WorkerFails(h, "cancelled")
       \/ ~cancelled[h] /\ WorkerGoes(h, "store") /\ UNCHANGED handleVars
    /\ UNCHANGED <<tokenVars, clientVars, historyVars>>

\* ... then the value, whatever has become of the flag meanwhile.
StoreResult(h) == /\ wpc[h] = "store"
                  /\ result' = [result EXCEPT ![h] = "value"]
                  /\ WorkerGoes(h, "finally")
                  /\ UNCHANGED <<cancelled, done, error, tokenVars, clientVars, historyVars>>

\* done is set before the result is stored.
BugDoneFirst(h) == /\ wpc[h] \in {"store", "finally"} /\ ~done[h]
                   /\ done' = [done EXCEPT ![h] = TRUE]
                   /\ WorkerGoes(h, IF wpc[h] = "store" THEN "store" ELSE "finished")
                   /\ UNCHANGED <<cancelled, result, error, tokenVars, clientVars, historyVars>>

SetDone(h) == /\ wpc[h] = "finally"
              /\ done' = [done EXCEPT ![h] = TRUE]
              /\ WorkerGoes(h, "finished")
              /\ UNCHANGED <<cancelled, result, error, tokenVars, clientVars, historyVars>>

Work(h) == \/ CheckCancelled(h) \/ Statement(h) \/ CheckReturned(h)
           \/ StoreResult(h) \/ SetDone(h)

-----------------------------------------------------------------------------
\* Clients.  A call starts in "idle" and comes back to it; what a call returns
\* goes to the histories, its locals are forgotten.

ClientGoes(c, there) == cpc' = [cpc EXCEPT ![c] = there]

ClientReturns(c) == /\ ClientGoes(c, "idle")
                    /\ on' = [on EXCEPT ![c] = None]
                    /\ mode' = [mode EXCEPT ![c] = "none"]
                    /\ saw' = [saw EXCEPT ![c] = FALSE]

Calls(c, h, m, there) == /\ cpc[c] = "idle"
                         /\ Spawned(h)
                         /\ on' = [on EXCEPT ![c] = h]
                         /\ mode' = [mode EXCEPT ![c] = m]
                         /\ ClientGoes(c, there)
                         /\ UNCHANGED saw

\* Where a call goes after the cancel_handle it contains: join's status, or home.
AfterCancel(c) ==
    \/ mode[c] = "pollCancel" /\ ClientGoes(c, "pending") /\ UNCHANGED <<on, mode, saw>>
    \/ mode[c] # "pollCancel" /\ ClientReturns(c)

\* cancel(handle)
CancelCall(c, h) == /\ Calls(c, h, "cancel", "cancelCheck")
                    /\ UNCHANGED <<handleVars, wpc, tokenVars, historyVars>>

\* A finished task is cancelled like any other.
BugCancelsFinished(c) == /\ cpc[c] = "cancelCheck"
                         /\ ClientGoes(c, "cancelSet")
                         /\ UNCHANGED <<handleVars, wpc, tokenVars, on, mode, saw, historyVars>>

\* cancel_handle, first access: a finished task is left alone.
CancelCheck(c) == /\ cpc[c] = "cancelCheck"
                  /\ \/ done[on[c]] /\ AfterCancel(c)
                     \/ ~done[on[c]] /\ ClientGoes(c, "cancelSet") /\ UNCHANGED <<on, mode, saw>>
                  /\ UNCHANGED <<handleVars, wpc, tokenVars, historyVars>>

\* cancel_handle, second access (its return value is not modelled).
CancelSet(c) == /\ cpc[c] = "cancelSet"
                /\ cancelled' = [cancelled EXCEPT ![on[c]] = TRUE]
                /\ AfterCancel(c)
                /\ UNCHANGED <<done, result, error, wpc, tokenVars, historyVars>>

\* The ways the runtime calls join_handle: join(h) and await; join(h, ms);
\* join(h, ms, true); and the exit of a task block.
JoinModes == {"join", "poll", "pollCancel", "scope"}

JoinCall(c, h, m) == /\ Calls(c, h, m, "wait")
                     /\ UNCHANGED <<handleVars, wpc, tokenVars, historyVars>>

\* The answer of done.wait is ignored: a timeout counts as finished.
BugIgnoresTimeout(c) == /\ cpc[c] = "wait"
                        /\ ClientGoes(c, "joined")
                        /\ UNCHANGED <<handleVars, wpc, tokenVars, on, mode, saw, historyVars>>

\* done.wait returned true, and thread.join() waits for the worker's epilogue.
JoinWoken(c) == /\ cpc[c] = "wait"
                /\ done[on[c]]
                /\ ClientGoes(c, "joined")
                /\ UNCHANGED <<handleVars, wpc, tokenVars, on, mode, saw, historyVars>>

\* The timeout is not passed on when the task is to be cancelled.
BugNoTimeout(c) ==
    /\ cpc[c] = "wait"
    /\ mode[c] = "poll"
    /\ ~done[on[c]]
    /\ ClientGoes(c, "pending")
    /\ UNCHANGED <<handleVars, wpc, tokenVars, on, mode, saw, historyVars>>

JoinTimeout(c) ==
    /\ cpc[c] = "wait"
    /\ mode[c] # "join"
    /\ ~done[on[c]]
    /\ ClientGoes(c, IF mode[c] = "poll" THEN "pending" ELSE "cancelCheck")
    /\ UNCHANGED <<handleVars, wpc, tokenVars, on, mode, saw, historyVars>>

\* A join without status raises or returns; cancelled is looked at first.
JoinOutcome(h) == CASE cancelled[h] /\ error[h] = "none" -> "join cancelled"
                    [] error[h] # "none"                 -> error[h]
                    [] OTHER                             -> result[h]

JoinReturn(c) ==
    /\ cpc[c] = "joined"
    /\ mode[c] \in {"join", "scope"}
    /\ outcomes' = [outcomes EXCEPT ![on[c]] = @ \cup {JoinOutcome(on[c])}]
    /\ ClientReturns(c)
    /\ UNCHANGED <<handleVars, wpc, tokenVars, statuses, accepted, late, winners>>

\* _join_status reads cancelled for the field of that name ...
StatusCancelled(c) ==
    /\ \/ cpc[c] = "joined" /\ mode[c] \in {"poll", "pollCancel"} /\ ClientGoes(c, "statusDone")
       \/ cpc[c] = "pending" /\ ClientGoes(c, "statusPending")
    /\ saw' = [saw EXCEPT ![c] = cancelled[on[c]]]
    /\ UNCHANGED <<handleVars, wpc, tokenVars, on, mode, historyVars>>

\* ... and error, and for the field result both once again.
Status(c) ==
    LET h == on[c]
        finished == cpc[c] = "statusDone"
    IN  [done |-> finished, cancelled |-> saw[c], error |-> error[h],
         result |-> IF error[h] # "none" \/ ~finished \/ cancelled[h]
                      THEN "none" ELSE result[h]]

StatusReturn(c) ==
    /\ cpc[c] \in {"statusDone", "statusPending"}
    /\ statuses' = [statuses EXCEPT ![on[c]] = @ \cup {Status(c)}]
    /\ ClientReturns(c)
    /\ UNCHANGED <<handleVars, wpc, tokenVars, outcomes, accepted, late, winners>>

-----------------------------------------------------------------------------
\* Tokens.  All of cancel and all of link_handle run under the token's lock; the
\* handles' flags they touch are not protected by it.

\* Every call of cancel counts.
BugCancelAgain(c, k) == /\ cpc[c] = "idle"
                        /\ lock[k] = None
                        /\ lock' = [lock EXCEPT ![k] = c]
                        /\ reason' = [reason EXCEPT ![k] = c]
                        /\ ClientGoes(c, "tokenFlag")
                        /\ UNCHANGED <<handleVars, wpc, tokCancelled, linked, todo,
                                       on, mode, saw, historyVars>>

\* Async.cancel on a token not cancelled before (otherwise it returns False
\* without any effect): the reason is stored ...
TokenCancel(c, k) == /\ cpc[c] = "idle"
                     /\ lock[k] = None
                     /\ ~tokCancelled[k]
                     /\ lock' = [lock EXCEPT ![k] = c]
                     /\ reason' = [reason EXCEPT ![k] = c]
                     /\ ClientGoes(c, "tokenFlag")
                     /\ UNCHANGED <<handleVars, wpc, tokCancelled, linked, todo,
                                    on, mode, saw, historyVars>>

\* The linked handles are not visited.
BugNoPropagation(c, k) == /\ cpc[c] = "tokenFlag"
                          /\ lock[k] = c
                          /\ tokCancelled' = [tokCancelled EXCEPT ![k] = TRUE]
                          /\ ClientGoes(c, "tokenLoop")
                          /\ UNCHANGED <<handleVars, wpc, reason, linked, lock, todo,
                                         on, mode, saw, historyVars>>

\* ... then the flag set, and the linked handles listed.
TokenFlag(c, k) == /\ cpc[c] = "tokenFlag"
                   /\ lock[k] = c
                   /\ tokCancelled' = [tokCancelled EXCEPT ![k] = TRUE]
                   /\ todo' = [todo EXCEPT ![k] = linked[k]]
                   /\ ClientGoes(c, "tokenLoop")
                   /\ UNCHANGED <<handleVars, wpc, reason, linked, lock,
                                  on, mode, saw, historyVars>>

\* One round of the loop: finished handles are dropped from the list, the flag
\* of any other is about to be set.
TokenVisit(c, k, h) ==
    /\ cpc[c] = "tokenLoop"
    /\ lock[k] = c
    /\ h \in todo[k]
    /\ todo' = [todo EXCEPT ![k] = @ \ {h}]
    /\ \/ /\ done[h]
          /\ linked' = [linked EXCEPT ![k] = @ \ {h}]
          /\ UNCHANGED <<cpc, on>>
       \/ /\ ~done[h]
          /\ on' = [on EXCEPT ![c] = h]
          /\ ClientGoes(c, "tokenSet")
          /\ UNCHANGED linked
    /\ UNCHANGED <<handleVars, wpc, tokCancelled, reason, lock, mode, saw, historyVars>>

TokenSet(c) == /\ cpc[c] = "tokenSet"
               /\ cancelled' = [cancelled EXCEPT ![on[c]] = TRUE]
               /\ on' = [on EXCEPT ![c] = None]
               /\ ClientGoes(c, "tokenLoop")
               /\ UNCHANGED <<done, result, error, wpc, tokenVars, mode, saw, historyVars>>

\* True is returned and the lock released.
TokenReturn(c, k) == /\ cpc[c] = "tokenLoop"
                     /\ lock[k] = c
                     /\ todo[k] = {}
                     /\ lock' = [lock EXCEPT ![k] = None]
                     /\ winners' = [winners EXCEPT ![k] = @ \cup {c}]
                     /\ ClientReturns(c)
                     /\ UNCHANGED <<handleVars, wpc, tokCancelled, reason, linked, todo,
                                    outcomes, statuses, accepted, late>>

\* link does not ask whether the token is cancelled already.
BugLinkLate(c, k, h) ==
    /\ cpc[c] = "idle"
    /\ Spawned(h)
    /\ lock[k] = None
    /\ h \notin linked[k]
    /\ linked' = [linked EXCEPT ![k] = @ \cup {h}]
    /\ accepted' = [accepted EXCEPT ![k] = @ \cup {h}]
    /\ UNCHANGED <<handleVars, wpc, tokCancelled, reason, lock, todo,
                   clientVars, outcomes, statuses, late, winners>>

\* Async.link: a handle already linked is left as it is; a cancelled token
\* cancels the handle at once; otherwise the handle joins the list.
Link(c, k, h) ==
    /\ cpc[c] = "idle"
    /\ Spawned(h)
    /\ lock[k] = None
    /\ h \notin linked[k]
    /\ \/ /\ tokCancelled[k]
          /\ cancelled' = [cancelled EXCEPT ![h] = TRUE]
          /\ late' = [late EXCEPT ![k] = @ \cup {h}]
          /\ UNCHANGED <<linked, accepted>>
       \/ /\ ~tokCancelled[k]
          /\ linked' = [linked EXCEPT ![k] = @ \cup {h}]
          /\ accepted' = [accepted EXCEPT ![k] = @ \cup {h}]
          /\ UNCHANGED <<cancelled, late>>
    /\ UNCHANGED <<done, result, error, wpc, tokCancelled, reason, lock, todo,
                   clientVars, outcomes, statuses, winners>>

-----------------------------------------------------------------------------
\* The rest of a call that has begun, once what it waits for has happened.
Continue(c) == \/ CancelCheck(c) \/ CancelSet(c)
               \/ JoinWoken(c) \/ JoinTimeout(c) \/ JoinReturn(c)
               \/ StatusCancelled(c) \/ StatusReturn(c)
               \/ TokenSet(c)
               \/ \E k \in Tokens : \/ TokenFlag(c, k) \/ TokenReturn(c, k)
                                    \/ \E h \in Tasks : TokenVisit(c, k, h)

Begin(c) == \/ \E h \in Tasks : \/ "cancel" \in Uses /\ CancelCall(c, h)
                                \/ \E m \in JoinModes \cap Uses : JoinCall(c, h, m)
            \/ \E k \in Tokens : \/ TokenCancel(c, k)
                                 \/ \E h \in Tasks : Link(c, k, h)

Next == \/ \E h \in Tasks : Spawn(h) \/ Work(h) \/ Unblock(h)
        \/ \E c \in Clients : Begin(c) \/ Continue(c)

Spec == Init /\ [][Next]_vars

\* Threads are scheduled by the operating system and hold no lock for ever, so a
\* worker keeps running its statements and a client gets on with a call.  When a
\* blocking native call returns, and what a program calls, is up to the program.
FairSpec == /\ Spec
            /\ \A h \in Tasks : WF_vars(Work(h))
            /\ \A c \in Clients : WF_vars(Continue(c))

-----------------------------------------------------------------------------
Errors == {"none", "raised", "cancelled"}
Results == {"none", "value"}
StatusRecords == [done : BOOLEAN, cancelled : BOOLEAN, error : Errors, result : Results]

\* The type of every variable; a client holds a handle exactly while a call is
\* about one.
TypeOK ==
    /\ cancelled \in [Tasks -> BOOLEAN]
    /\ done \in [Tasks -> BOOLEAN]
    /\ result \in [Tasks -> Results]
    /\ error \in [Tasks -> Errors]
    /\ wpc \in [Tasks -> {"unspawned", "entry", "boundary", "statement", "blocked",
                          "returned", "store", "finally", "finished"}]
    /\ tokCancelled \in [Tokens -> BOOLEAN]
    /\ reason \in [Tokens -> Clients \cup {None}]
    /\ linked \in [Tokens -> SUBSET Tasks]
    /\ lock \in [Tokens -> Clients \cup {None}]
    /\ todo \in [Tokens -> SUBSET Tasks]
    /\ cpc \in [Clients -> {"idle", "cancelCheck", "cancelSet", "wait", "joined", "pending",
                            "statusDone", "statusPending", "tokenFlag", "tokenLoop",
                            "tokenSet"}]
    /\ on \in [Clients -> Tasks \cup {None}]
    /\ \A c \in Clients : on[c] = None <=> cpc[c] \in {"idle", "tokenFlag", "tokenLoop"}
    /\ mode \in [Clients -> JoinModes \cup {"none", "cancel"}]
    /\ saw \in [Clients -> BOOLEAN]
    /\ outcomes \in [Tasks -> SUBSET {"value", "raised", "cancelled", "join cancelled", "none"}]
    /\ statuses \in [Tasks -> SUBSET StatusRecords]
    /\ accepted \in [Tokens -> SUBSET Tasks]
    /\ late \in [Tokens -> SUBSET Tasks]
    /\ winners \in [Tokens -> SUBSET Clients]

\* What a finished task leaves behind never mixes: done is set only after exactly
\* one of result and error has been, so that a join that finds neither a flag nor
\* an error has a value to return (the order of _run_spawn's last writes).
OneOutcome ==
    \A h \in Tasks : /\ done[h] => (result[h] = "none") # (error[h] = "none")
                     /\ result[h] # "none" => error[h] = "none"

\* Every outcome was delivered after the worker had stopped for good (a joined
\* worker performs no later mutation, cancelled or not), and agrees with what the
\* handle holds.
OutcomesStayTrue ==
    \A h \in Tasks : \A o \in outcomes[h] :
        /\ wpc[h] = "finished"
        /\ o = "value" => result[h] = "value" /\ error[h] = "none"
        /\ o \in {"raised", "cancelled"} => error[h] = o
        /\ o = "join cancelled" => cancelled[h]
        /\ o # "none"

\* docs/structured_concurrency.md: "Cancelled or errored tasks never populate
\* result" in a join status, although its fields are read one after the other
\* while the worker and cancellers go on.
StatusNeverMixes ==
    \A h \in Tasks : \A s \in statuses[h] :
        s.cancelled \/ s.error # "none" \/ ~s.done => s.result = "none"

\* What joins and join statuses have told their callers is consistent and stays
\* true (join_handle and _join_status, against the worker's last writes).
JoinTellsTheTruth == OutcomesStayTrue /\ StatusNeverMixes

\* A linked handle does not slip through a cancelled token, whichever of link and
\* cancel came first: when no cancel is running, every handle the token accepted
\* or met too late is cancelled or has finished.
NoHandleEscapes ==
    \A k \in Tokens :
        tokCancelled[k] /\ lock[k] = None =>
            \A h \in accepted[k] \cup late[k] : cancelled[h] \/ done[h]

\* A finished task that no cancel has reached, or is past its look at done for.
Settled(h) == /\ done[h] /\ ~cancelled[h]
              /\ \A c \in Clients : ~(cpc[c] \in {"cancelSet", "tokenSet"} /\ on[c] = h)

\* docs/structured_concurrency.md: "Completion wins".  Once a task has finished and
\* no cancel that saw it running is under way, no cancel, of the handle, by a
\* join's timeout or by a token, turns what its joins return into an error; only
\* linking it to a token already cancelled does.
CompletionWins ==
    [][\A h \in Tasks : Settled(h) => Settled(h)' \/ \E k \in Tokens : h \in late'[k]]_vars

\* Async.cancel "returns true only on the first call", and whoever sees the token
\* cancelled reads the reason of that call: the reason is in place before the
\* flag and is never replaced.
FirstCancelWins ==
    \A k \in Tokens : /\ \A c \in winners[k] : winners[k] = {c} /\ reason[k] = c
                      /\ tokCancelled[k] => reason[k] # None

\* A cancelled task stops by itself: it finishes unless a statement of it blocks
\* in a native call.
CancelledStops ==
    \A h \in Tasks : cancelled[h] /\ Spawned(h) ~> (done[h] \/ wpc[h] = "blocked")

\* Cancelling a token stops every task ever linked to it, with the same exception.
TokenStopsLinked ==
    \A k \in Tokens, h \in Tasks :
        tokCancelled[k] /\ h \in accepted[k] ~> (done[h] \/ wpc[h] = "blocked")

\* A join with a timeout comes back, whatever the task does (also when its cancel
\* races with the end of the task).
TimedJoinReturns ==
    \A c \in Clients : cpc[c] = "wait" /\ mode[c] # "join" ~> (cpc[c] = "idle")
=============================================================================
