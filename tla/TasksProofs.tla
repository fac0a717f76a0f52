---------------------------- MODULE TasksProofs -----------------------------
(***************************************************************************)
(* Proofs that the task handles and the cancellation tokens of Tasks.tla   *)
(* keep their promises, for any number of tasks, client threads and        *)
(* tokens.                                                                 *)
(*                                                                         *)
(* The inductive invariant says, of each part, what the next access of     *)
(* every thread may rely on: how far a worker is tells what its handle     *)
(* holds (WorkerInv), who owns a token's lock tells how far its cancel is  *)
(* (TokenInv), where a handle that was accepted by a token still has to be *)
(* met (EscapeInv), and what a caller has read remains true (CallerInv).   *)
(***************************************************************************)
EXTENDS Tasks, TLAPS

\* The worker has not begun to write what the task leaves behind.
Running(h) == wpc[h] \notin {"finally", "finished"}

WorkerAt(h) == /\ done[h] <=> wpc[h] = "finished"
               /\ Running(h) => result[h] = "none" /\ error[h] = "none"
               /\ ~Running(h) => (result[h] = "none") # (error[h] = "none")

WorkerInv == \A h \in Tasks : WorkerAt(h)

TokenPcs == {"tokenFlag", "tokenLoop", "tokenSet"}

\* A token's lock is held by the one client that cancels it.
LockAt(k) == lock[k] # None => /\ cpc[lock[k]] \in TokenPcs
                               /\ reason[k] = lock[k]
                               /\ tokCancelled[k] <=> cpc[lock[k]] # "tokenFlag"

TokenAt(k) ==
    /\ lock[k] = None => todo[k] = {}
    /\ tokCancelled[k] => reason[k] # None
    /\ winners[k] # {} => tokCancelled[k] /\ lock[k] = None /\ winners[k] = {reason[k]}

TokenInv ==
    /\ \A k \in Tokens : LockAt(k) /\ TokenAt(k)
    /\ \A j, k \in Tokens : lock[j] # None /\ lock[j] = lock[k] => j = k

\* The owner of the lock of k is about to set the flag of h.
Marked(k, h) == lock[k] # None /\ cpc[lock[k]] = "tokenSet" /\ on[lock[k]] = h

EscapeAt(k, h) ==
    /\ h \in accepted[k] =>
          /\ ~tokCancelled[k] => h \in linked[k]
          /\ tokCancelled[k] => cancelled[h] \/ done[h] \/ h \in todo[k] \/ Marked(k, h)
    /\ h \in late[k] => cancelled[h]

EscapeInv == \A k \in Tokens, h \in Tasks : EscapeAt(k, h)

CallerAt(c) == /\ cpc[c] \in {"joined", "statusDone"} => done[on[c]]
               /\ cpc[c] = "statusDone" /\ saw[c] => cancelled[on[c]]

CallerInv == \A c \in Clients : CallerAt(c)

-----------------------------------------------------------------------------
HandleTypes == /\ cancelled \in [Tasks -> BOOLEAN]
               /\ done \in [Tasks -> BOOLEAN]
               /\ result \in [Tasks -> Results]
               /\ error \in [Tasks -> Errors]

WorkerTypes == wpc \in [Tasks -> {"unspawned", "entry", "boundary", "statement", "blocked",
                                  "returned", "store", "finally", "finished"}]

TokenTypes == /\ tokCancelled \in [Tokens -> BOOLEAN]
              /\ reason \in [Tokens -> Clients \cup {None}]
              /\ linked \in [Tokens -> SUBSET Tasks]
              /\ lock \in [Tokens -> Clients \cup {None}]
              /\ todo \in [Tokens -> SUBSET Tasks]

ClientTypes == /\ cpc \in [Clients -> {"idle", "cancelCheck", "cancelSet", "wait", "joined",
                                       "pending", "statusDone", "statusPending", "tokenFlag",
                                       "tokenLoop", "tokenSet"}]
               /\ on \in [Clients -> Tasks \cup {None}]
               /\ \A c \in Clients : on[c] = None <=> cpc[c] \in {"idle", "tokenFlag", "tokenLoop"}
               /\ mode \in [Clients -> JoinModes \cup {"none", "cancel"}]
               /\ saw \in [Clients -> BOOLEAN]

HistoryTypes == /\ outcomes \in [Tasks -> SUBSET {"value", "raised", "cancelled",
                                                  "join cancelled", "none"}]
                /\ statuses \in [Tasks -> SUBSET StatusRecords]
                /\ accepted \in [Tokens -> SUBSET Tasks]
                /\ late \in [Tokens -> SUBSET Tasks]
                /\ winners \in [Tokens -> SUBSET Clients]

\* The type invariant, by the part of the state it is about.
LEMMA TypeParts ==
    TypeOK <=> HandleTypes /\ WorkerTypes /\ TokenTypes /\ ClientTypes /\ HistoryTypes
  BY DEF TypeOK, HandleTypes, WorkerTypes, TokenTypes, ClientTypes, HistoryTypes

LEMMA TypePartsNext ==
    HandleTypes' /\ WorkerTypes' /\ TokenTypes' /\ ClientTypes' /\ HistoryTypes' => TypeOK'
  BY DEF TypeOK, HandleTypes, WorkerTypes, TokenTypes, ClientTypes, HistoryTypes

\* The parts of the next state that a step leaves alone keep their types.
LEMMA TypeFrame ==
    ASSUME TypeOK
    PROVE  /\ UNCHANGED handleVars => HandleTypes'
           /\ UNCHANGED wpc => WorkerTypes'
           /\ UNCHANGED tokenVars => TokenTypes'
           /\ UNCHANGED clientVars => ClientTypes'
           /\ UNCHANGED historyVars => HistoryTypes'
<1> USE TypeParts
<1>1. UNCHANGED handleVars => HandleTypes'
  BY DEF handleVars, HandleTypes
<1>2. UNCHANGED wpc => WorkerTypes'
  BY DEF WorkerTypes
<1>3. UNCHANGED tokenVars => TokenTypes'
  BY DEF tokenVars, TokenTypes
<1>4. UNCHANGED clientVars => ClientTypes'
  BY DEF clientVars, ClientTypes
<1>5. UNCHANGED historyVars => HistoryTypes'
  BY DEF historyVars, HistoryTypes
<1> QED
  BY <1>1, <1>2, <1>3, <1>4, <1>5


\* Every step keeps the types of all variables.
LEMMA TypeStep == TypeOK /\ [Next]_vars => TypeOK'
<1> SUFFICES ASSUME TypeOK, [Next]_vars PROVE TypeOK'
  OBVIOUS
<1> USE TypeParts
<1>1. ASSUME NEW h \in Tasks, Spawn(h) PROVE TypeOK'
  <2>1. WorkerTypes'
    BY <1>1 DEF Spawn, WorkerTypes, WorkerGoes
  <2> QED
    BY <1>1, <2>1, TypeFrame, TypePartsNext DEF Spawn
<1>2. ASSUME NEW h \in Tasks, CheckCancelled(h) PROVE TypeOK'
  <2>1. HandleTypes'
    BY <1>2 DEF CheckCancelled, HandleTypes, Results, Errors, WorkerFails, handleVars
  <2>2. WorkerTypes'
    BY <1>2 DEF CheckCancelled, WorkerTypes, WorkerGoes, WorkerFails
  <2> QED
    BY <1>2, <2>1, <2>2, TypeFrame, TypePartsNext DEF CheckCancelled, WorkerFails
<1>3. ASSUME NEW h \in Tasks, Statement(h) PROVE TypeOK'
  <2>1. HandleTypes'
    BY <1>3 DEF Statement, HandleTypes, Results, Errors, WorkerFails, handleVars
  <2>2. WorkerTypes'
    BY <1>3 DEF Statement, WorkerTypes, WorkerGoes, WorkerFails
  <2> QED
    BY <1>3, <2>1, <2>2, TypeFrame, TypePartsNext DEF Statement, WorkerFails
<1>4. ASSUME NEW h \in Tasks, Unblock(h) PROVE TypeOK'
  <2>1. WorkerTypes'
    BY <1>4 DEF Unblock, WorkerTypes, WorkerGoes
  <2> QED
    BY <1>4, <2>1, TypeFrame, TypePartsNext DEF Unblock
<1>5. ASSUME NEW h \in Tasks, CheckReturned(h) PROVE TypeOK'
  <2>1. HandleTypes'
    BY <1>5 DEF CheckReturned, HandleTypes, Results, Errors, WorkerFails, handleVars
  <2>2. WorkerTypes'
    BY <1>5 DEF CheckReturned, WorkerTypes, WorkerGoes, WorkerFails
  <2> QED
    BY <1>5, <2>1, <2>2, TypeFrame, TypePartsNext DEF CheckReturned, WorkerFails
<1>6. ASSUME NEW h \in Tasks, StoreResult(h) PROVE TypeOK'
  <2>1. HandleTypes'
    BY <1>6 DEF StoreResult, HandleTypes, Results, Errors, handleVars
  <2>2. WorkerTypes'
    BY <1>6 DEF StoreResult, WorkerTypes, WorkerGoes
  <2> QED
    BY <1>6, <2>1, <2>2, TypeFrame, TypePartsNext DEF StoreResult
<1>7. ASSUME NEW h \in Tasks, SetDone(h) PROVE TypeOK'
  <2>1. HandleTypes'
    BY <1>7 DEF SetDone, HandleTypes, Results, Errors, handleVars
  <2>2. WorkerTypes'
    BY <1>7 DEF SetDone, WorkerTypes, WorkerGoes
  <2> QED
    BY <1>7, <2>1, <2>2, TypeFrame, TypePartsNext DEF SetDone
<1>8. ASSUME NEW c \in Clients, NEW h \in Tasks, CancelCall(c, h) PROVE TypeOK'
  <2>1. ClientTypes'
    BY <1>8, TasksAssumption DEF CancelCall, ClientTypes, ClientGoes, JoinModes, Calls, clientVars
  <2> QED
    BY <1>8, <2>1, TypeFrame, TypePartsNext DEF CancelCall, Calls
<1>9. ASSUME NEW c \in Clients, NEW h \in Tasks, NEW m \in JoinModes, JoinCall(c, h, m) PROVE TypeOK'
  <2>1. ClientTypes'
    BY <1>9, TasksAssumption DEF JoinCall, ClientTypes, ClientGoes, JoinModes, Calls, clientVars
  <2> QED
    BY <1>9, <2>1, TypeFrame, TypePartsNext DEF JoinCall, Calls
<1>10. ASSUME NEW c \in Clients, CancelCheck(c) PROVE TypeOK'
  <2>1. ClientTypes'
    BY <1>10 DEF CancelCheck, ClientTypes, ClientGoes, JoinModes, AfterCancel, ClientReturns, clientVars
  <2> QED
    BY <1>10, <2>1, TypeFrame, TypePartsNext DEF CancelCheck, AfterCancel, ClientReturns
<1>11. ASSUME NEW c \in Clients, CancelSet(c) PROVE TypeOK'
  <2>1. HandleTypes'
    BY <1>11 DEF CancelSet, HandleTypes, Results, Errors, AfterCancel, ClientReturns, handleVars
  <2>2. ClientTypes'
    BY <1>11 DEF CancelSet, ClientTypes, ClientGoes, JoinModes, AfterCancel, ClientReturns, clientVars
  <2> QED
    BY <1>11, <2>1, <2>2, TypeFrame, TypePartsNext DEF CancelSet, AfterCancel, ClientReturns
<1>12. ASSUME NEW c \in Clients, JoinWoken(c) PROVE TypeOK'
  <2>1. ClientTypes'
    BY <1>12 DEF JoinWoken, ClientTypes, ClientGoes, JoinModes, clientVars
  <2> QED
    BY <1>12, <2>1, TypeFrame, TypePartsNext DEF JoinWoken
<1>13. ASSUME NEW c \in Clients, JoinTimeout(c) PROVE TypeOK'
  <2>1. ClientTypes'
    BY <1>13 DEF JoinTimeout, ClientTypes, ClientGoes, JoinModes, clientVars
  <2> QED
    BY <1>13, <2>1, TypeFrame, TypePartsNext DEF JoinTimeout
<1>14. ASSUME NEW c \in Clients, JoinReturn(c) PROVE TypeOK'
  <2>1. ClientTypes'
    BY <1>14 DEF JoinReturn, ClientTypes, ClientGoes, JoinModes, ClientReturns, clientVars
  <2>2. HistoryTypes'
    <3>1. on[c] \in Tasks
      BY <1>14 DEF JoinReturn, ClientTypes
    <3>2. JoinOutcome(on[c]) \in {"value", "raised", "cancelled", "join cancelled", "none"}
      BY <3>1 DEF JoinOutcome, HandleTypes, Errors, Results
    <3> QED
      BY <1>14, <3>1, <3>2 DEF JoinReturn, HistoryTypes
  <2> QED
    BY <1>14, <2>1, <2>2, TypeFrame, TypePartsNext DEF JoinReturn, ClientReturns
<1>15. ASSUME NEW c \in Clients, StatusCancelled(c) PROVE TypeOK'
  <2>1. ClientTypes'
    <3>1. on[c] \in Tasks
      BY <1>15 DEF StatusCancelled, ClientTypes
    <3>2. saw' \in [Clients -> BOOLEAN]
      <4>1. cancelled[on[c]] \in BOOLEAN
        BY <3>1 DEF HandleTypes
      <4> QED
        BY <1>15, <4>1, Zenon DEF StatusCancelled, ClientTypes
    <3> QED
      BY <1>15, <3>2 DEF StatusCancelled, ClientTypes, ClientGoes
  <2> QED
    BY <1>15, <2>1, TypeFrame, TypePartsNext DEF StatusCancelled
<1>16. ASSUME NEW c \in Clients, StatusReturn(c) PROVE TypeOK'
  <2>1. ClientTypes'
    BY <1>16 DEF StatusReturn, ClientTypes, ClientGoes, JoinModes, ClientReturns, clientVars
  <2>2. HistoryTypes'
    <3>1. on[c] \in Tasks
      BY <1>16 DEF StatusReturn, ClientTypes
    <3>2. /\ saw[c] \in BOOLEAN /\ error[on[c]] \in Errors /\ result[on[c]] \in Results
          /\ "none" \in Results
      BY <3>1 DEF ClientTypes, HandleTypes, Results
    <3>3. Status(c) \in StatusRecords
      BY <3>2, Zenon DEF Status, StatusRecords
    <3> QED
      BY <1>16, <3>1, <3>3 DEF StatusReturn, HistoryTypes
  <2> QED
    BY <1>16, <2>1, <2>2, TypeFrame, TypePartsNext DEF StatusReturn, ClientReturns
<1>17. ASSUME NEW c \in Clients, NEW k \in Tokens, TokenCancel(c, k) PROVE TypeOK'
  <2>1. TokenTypes'
    BY <1>17 DEF TokenCancel, TokenTypes, tokenVars
  <2>2. ClientTypes'
    BY <1>17 DEF TokenCancel, ClientTypes, ClientGoes, JoinModes, clientVars
  <2> QED
    BY <1>17, <2>1, <2>2, TypeFrame, TypePartsNext DEF TokenCancel
<1>18. ASSUME NEW c \in Clients, NEW k \in Tokens, TokenFlag(c, k) PROVE TypeOK'
  <2>1. TokenTypes'
    BY <1>18 DEF TokenFlag, TokenTypes, tokenVars
  <2>2. ClientTypes'
    BY <1>18 DEF TokenFlag, ClientTypes, ClientGoes, JoinModes, clientVars
  <2> QED
    BY <1>18, <2>1, <2>2, TypeFrame, TypePartsNext DEF TokenFlag
<1>19. ASSUME NEW c \in Clients, NEW k \in Tokens, NEW h \in Tasks, TokenVisit(c, k, h) PROVE TypeOK'
  <2>1. TokenTypes'
    BY <1>19 DEF TokenVisit, TokenTypes, tokenVars
  <2>2. ClientTypes'
    <3>1. CASE UNCHANGED <<cpc, on>>
      BY <1>19, <3>1 DEF TokenVisit, ClientTypes
    <3>2. CASE on' = [on EXCEPT ![c] = h] /\ ClientGoes(c, "tokenSet")
      BY <1>19, <3>2, TasksAssumption DEF TokenVisit, ClientTypes, ClientGoes
    <3> QED
      BY <1>19, <3>1, <3>2 DEF TokenVisit
  <2> QED
    BY <1>19, <2>1, <2>2, TypeFrame, TypePartsNext DEF TokenVisit
<1>20. ASSUME NEW c \in Clients, TokenSet(c) PROVE TypeOK'
  <2>1. HandleTypes'
    BY <1>20 DEF TokenSet, HandleTypes, Results, Errors, handleVars
  <2>2. ClientTypes'
    BY <1>20 DEF TokenSet, ClientTypes, ClientGoes, JoinModes, clientVars
  <2> QED
    BY <1>20, <2>1, <2>2, TypeFrame, TypePartsNext DEF TokenSet
<1>21. ASSUME NEW c \in Clients, NEW k \in Tokens, TokenReturn(c, k) PROVE TypeOK'
  <2>1. TokenTypes'
    BY <1>21 DEF TokenReturn, TokenTypes, ClientReturns, tokenVars
  <2>2. ClientTypes'
    BY <1>21 DEF TokenReturn, ClientTypes, ClientGoes, JoinModes, ClientReturns, clientVars
  <2>3. HistoryTypes'
    BY <1>21 DEF TokenReturn, HistoryTypes, ClientReturns, historyVars
  <2> QED
    BY <1>21, <2>1, <2>2, <2>3, TypeFrame, TypePartsNext DEF TokenReturn, ClientReturns
<1>22. ASSUME NEW c \in Clients, NEW k \in Tokens, NEW h \in Tasks, Link(c, k, h) PROVE TypeOK'
  <2>1. HandleTypes'
    BY <1>22 DEF Link, HandleTypes, Results, Errors, handleVars
  <2>2. TokenTypes'
    BY <1>22 DEF Link, TokenTypes, tokenVars
  <2>3. HistoryTypes'
    <3>1. accepted' \in [Tokens -> SUBSET Tasks]
      <4>1. accepted \in [Tokens -> SUBSET Tasks]
        BY DEF HistoryTypes
      <4>2. accepted' = accepted \/ accepted' = [accepted EXCEPT ![k] = @ \cup {h}]
        BY <1>22, Zenon DEF Link
      <4> QED
        BY <4>1, <4>2
    <3>2. late' \in [Tokens -> SUBSET Tasks]
      <4>1. late \in [Tokens -> SUBSET Tasks]
        BY DEF HistoryTypes
      <4>2. late' = late \/ late' = [late EXCEPT ![k] = @ \cup {h}]
        BY <1>22, Zenon DEF Link
      <4> QED
        BY <4>1, <4>2
    <3> QED
      BY <1>22, <3>1, <3>2 DEF Link, HistoryTypes
  <2> QED
    BY <1>22, <2>1, <2>2, <2>3, TypeFrame, TypePartsNext DEF Link
<1>23. CASE UNCHANGED vars
  BY <1>23, TypeFrame, TypePartsNext DEF vars
<1> QED
  BY <1>1, <1>2, <1>3, <1>4, <1>5, <1>6, <1>7, <1>8, <1>9, <1>10, <1>11, <1>12, <1>13, <1>14, <1>15, <1>16, <1>17, <1>18, <1>19, <1>20, <1>21, <1>22, <1>23
     DEF Next, Work, Begin, Continue

\* What the clients do, a worker's own fields stay as they are.
LEMMA ClientsLeaveWorkers ==
    ASSUME NEW c \in Clients, Begin(c) \/ Continue(c)
    PROVE  UNCHANGED <<done, result, error, wpc>>
  BY DEF Begin, CancelCall, JoinCall, TokenCancel, Link, Continue, CancelCheck, CancelSet,
         JoinWoken, JoinTimeout, JoinReturn, StatusCancelled, StatusReturn, TokenSet, TokenFlag,
         TokenReturn, TokenVisit, handleVars

\* The workers leave alone what belongs to clients and tokens.
LEMMA WorkersLeaveClients ==
    ASSUME NEW h \in Tasks, Spawn(h) \/ Work(h) \/ Unblock(h)
    PROVE  UNCHANGED <<cancelled, tokenVars, clientVars, historyVars>>
  BY DEF Spawn, Work, Unblock, CheckCancelled, Statement, CheckReturned, StoreResult, SetDone,
         WorkerFails, handleVars

\* A worker writes the fields of its own handle only.
LEMMA WorkersMindTheirOwn ==
    ASSUME TypeOK, NEW h \in Tasks, Spawn(h) \/ Work(h) \/ Unblock(h), NEW g \in Tasks \ {h}
    PROVE  /\ done'[g] = done[g] /\ wpc'[g] = wpc[g]
           /\ result'[g] = result[g] /\ error'[g] = error[g]
<1> USE DEF TypeOK, WorkerGoes, WorkerFails, handleVars
<1>1. CASE Spawn(h)
  BY <1>1 DEF Spawn
<1>2. CASE CheckCancelled(h)
  BY <1>2 DEF CheckCancelled
<1>3. CASE Statement(h)
  BY <1>3 DEF Statement
<1>4. CASE Unblock(h)
  BY <1>4 DEF Unblock
<1>5. CASE CheckReturned(h)
  BY <1>5 DEF CheckReturned
<1>6. CASE StoreResult(h)
  BY <1>6 DEF StoreResult
<1>7. CASE SetDone(h)
  BY <1>7 DEF SetDone
<1> QED
  BY <1>1, <1>2, <1>3, <1>4, <1>5, <1>6, <1>7 DEF Work

\* How far a worker is tells what its handle holds.
LEMMA WorkerStep == TypeOK /\ WorkerInv /\ [Next]_vars => WorkerInv'
<1> SUFFICES ASSUME TypeOK, WorkerInv, [Next]_vars PROVE WorkerInv'
  OBVIOUS
<1>1. ASSUME NEW h \in Tasks, Spawn(h) \/ Work(h) \/ Unblock(h) PROVE WorkerInv'
  <2>1. ASSUME NEW g \in Tasks \ {h} PROVE WorkerAt(g)'
    BY <1>1, WorkersMindTheirOwn DEF WorkerInv, WorkerAt, Running
  <2>2. WorkerAt(h)'
    <3>0. /\ TypeOK
          /\ WorkerAt(h)
      BY DEF WorkerInv
    <3> USE DEF WorkerAt, Running, TypeOK, WorkerGoes, WorkerFails, handleVars
    <3>1. CASE Spawn(h)
      BY <3>0, <3>1 DEF Spawn, Spawned
    <3>2. CASE CheckCancelled(h)
      BY <3>0, <3>2 DEF CheckCancelled
    <3>3. CASE Statement(h)
      BY <3>0, <3>3 DEF Statement
    <3>4. CASE Unblock(h)
      BY <3>0, <3>4 DEF Unblock
    <3>5. CASE CheckReturned(h)
      BY <3>0, <3>5 DEF CheckReturned
    <3>6. CASE StoreResult(h)
      BY <3>0, <3>6 DEF StoreResult
    <3>7. CASE SetDone(h)
      BY <3>0, <3>7 DEF SetDone
    <3> QED
      BY <1>1, <3>1, <3>2, <3>3, <3>4, <3>5, <3>6, <3>7 DEF Work
  <2> QED
    BY <2>1, <2>2 DEF WorkerInv
<1>2. ASSUME NEW c \in Clients, Begin(c) \/ Continue(c) PROVE WorkerInv'
  BY <1>2, ClientsLeaveWorkers DEF WorkerInv, WorkerAt, Running
<1>3. CASE UNCHANGED vars
  BY <1>3 DEF vars, handleVars, WorkerInv, WorkerAt, Running
<1> QED
  BY <1>1, <1>2, <1>3 DEF Next

-----------------------------------------------------------------------------
\* The accesses of a client in a call on a handle.
HandleCall(c) == \/ \E h \in Tasks : CancelCall(c, h) \/ \E m \in JoinModes : JoinCall(c, h, m)
                 \/ CancelCheck(c) \/ CancelSet(c)
                 \/ JoinWoken(c) \/ JoinTimeout(c) \/ JoinReturn(c)
                 \/ StatusCancelled(c) \/ StatusReturn(c)

TokenCall(c, k) == \/ TokenCancel(c, k) \/ TokenFlag(c, k) \/ TokenReturn(c, k)
                   \/ \E h \in Tasks : TokenVisit(c, k, h) \/ Link(c, k, h)

\* The steps of a client: on a handle, or on a token.
LEMMA ClientSteps ==
    ASSUME NEW c \in Clients, Begin(c) \/ Continue(c)
    PROVE  HandleCall(c) \/ TokenSet(c) \/ \E k \in Tokens : TokenCall(c, k)
  BY DEF Begin, Continue, HandleCall, TokenCall

\* A call on a handle touches no token, nor the caller of a token's cancel.
LEMMA HandleCallFrame ==
    ASSUME TypeOK, NEW c \in Clients, HandleCall(c)
    PROVE  /\ UNCHANGED <<tokenVars, accepted, late, winners>>
           /\ cpc[c] \notin TokenPcs
           /\ \A d \in Clients \ {c} : cpc'[d] = cpc[d] /\ on'[d] = on[d] /\ saw'[d] = saw[d]
<1> DEFINE Framed == /\ UNCHANGED <<tokenVars, accepted, late, winners>>
                     /\ cpc[c] \notin TokenPcs
                     /\ \A d \in Clients \ {c} : /\ cpc'[d] = cpc[d] /\ on'[d] = on[d]
                                                 /\ saw'[d] = saw[d]
<1> USE DEF TokenPcs, ClientGoes, ClientReturns, historyVars
<1>0. /\ cpc \in [Clients -> {"idle", "cancelCheck", "cancelSet", "wait", "joined", "pending",
                              "statusDone", "statusPending", "tokenFlag", "tokenLoop", "tokenSet"}]
      /\ on \in [Clients -> Tasks \cup {None}]
      /\ saw \in [Clients -> BOOLEAN]
  BY DEF TypeOK
<1>1. ASSUME NEW h \in Tasks, CancelCall(c, h) PROVE Framed
  BY <1>0, <1>1 DEF CancelCall, Calls
<1>2. ASSUME NEW h \in Tasks, NEW m \in JoinModes, JoinCall(c, h, m) PROVE Framed
  BY <1>0, <1>2 DEF JoinCall, Calls
<1>3. ASSUME CancelCheck(c) PROVE Framed
  BY <1>0, <1>3 DEF CancelCheck, AfterCancel
<1>4. ASSUME CancelSet(c) PROVE Framed
  BY <1>0, <1>4 DEF CancelSet, AfterCancel
<1>5. ASSUME JoinWoken(c) PROVE Framed
  BY <1>0, <1>5 DEF JoinWoken
<1>6. ASSUME JoinTimeout(c) PROVE Framed
  BY <1>0, <1>6 DEF JoinTimeout
<1>7. ASSUME JoinReturn(c) PROVE Framed
  BY <1>0, <1>7 DEF JoinReturn
<1>8. ASSUME StatusCancelled(c) PROVE Framed
  BY <1>0, <1>8 DEF StatusCancelled
<1>9. ASSUME StatusReturn(c) PROVE Framed
  BY <1>0, <1>9 DEF StatusReturn
<1> QED
  BY <1>1, <1>2, <1>3, <1>4, <1>5, <1>6, <1>7, <1>8, <1>9 DEF HandleCall

\* A token's lock, its flag and its reason go together.
LEMMA TokenStep == TypeOK /\ TokenInv /\ [Next]_vars => TokenInv'
<1> SUFFICES ASSUME TypeOK, TokenInv, [Next]_vars PROVE TokenInv'
  OBVIOUS
<1> USE TasksAssumption
<1>1. ASSUME NEW h \in Tasks, Spawn(h) \/ Work(h) \/ Unblock(h) PROVE TokenInv'
  BY <1>1, WorkersLeaveClients DEF TokenInv, LockAt, TokenAt, tokenVars, clientVars, historyVars
<1>2. ASSUME NEW c \in Clients, HandleCall(c) PROVE TokenInv'
  <2>1. \A k \in Tokens : lock[k] \in Clients \cup {None} /\ lock[k] # c
    <3>1. cpc[c] \notin TokenPcs /\ c # None
      BY <1>2, HandleCallFrame
    <3> QED
      BY <3>1, TypeParts DEF TokenTypes, TokenInv, LockAt
  <2> QED
    BY <1>2, <2>1, HandleCallFrame DEF TokenInv, LockAt, TokenAt, tokenVars
<1>3. ASSUME NEW c \in Clients, TokenSet(c) PROVE TokenInv'
  <2> USE DEF TokenSet, ClientGoes, TokenPcs
  <2>0. TokenTypes /\ ClientTypes /\ c # None
    BY TypeParts
  <2>1. ASSUME NEW j \in Tokens PROVE LockAt(j)'
    BY <2>0, <1>3 DEF TokenTypes, ClientTypes, TokenInv, LockAt, tokenVars
  <2>2. ASSUME NEW j \in Tokens PROVE TokenAt(j)'
    BY <2>0, <1>3 DEF TokenTypes, TokenInv, TokenAt, LockAt, historyVars, tokenVars
  <2>3. \A i, j \in Tokens : lock'[i] # None /\ lock'[i] = lock'[j] => i = j
    BY <2>0, <1>3 DEF TokenTypes, TokenInv, LockAt, tokenVars
  <2> QED
    BY <2>1, <2>2, <2>3 DEF TokenInv
<1>4. ASSUME NEW c \in Clients, NEW k \in Tokens, TokenCancel(c, k) PROVE TokenInv'
  <2> USE DEF TokenCancel, ClientGoes, TokenPcs
  <2>0. TokenTypes /\ ClientTypes /\ c # None
    BY TypeParts
  <2>1. ASSUME NEW j \in Tokens PROVE LockAt(j)'
    BY <2>0, <1>4 DEF TokenTypes, ClientTypes, TokenInv, LockAt
  <2>2. ASSUME NEW j \in Tokens PROVE TokenAt(j)'
    BY <2>0, <1>4 DEF TokenTypes, TokenInv, TokenAt, LockAt, historyVars
  <2>3. \A i, j \in Tokens : lock'[i] # None /\ lock'[i] = lock'[j] => i = j
    BY <2>0, <1>4 DEF TokenTypes, TokenInv, LockAt
  <2> QED
    BY <2>1, <2>2, <2>3 DEF TokenInv
<1>5. ASSUME NEW c \in Clients, NEW k \in Tokens, TokenFlag(c, k) PROVE TokenInv'
  <2> USE DEF TokenFlag, ClientGoes, TokenPcs
  <2>0. TokenTypes /\ ClientTypes /\ c # None
    BY TypeParts
  <2>1. ASSUME NEW j \in Tokens PROVE LockAt(j)'
    BY <2>0, <1>5 DEF TokenTypes, ClientTypes, TokenInv, LockAt
  <2>2. ASSUME NEW j \in Tokens PROVE TokenAt(j)'
    BY <2>0, <1>5 DEF TokenTypes, TokenInv, TokenAt, LockAt, historyVars
  <2>3. \A i, j \in Tokens : lock'[i] # None /\ lock'[i] = lock'[j] => i = j
    BY <2>0, <1>5 DEF TokenTypes, TokenInv, LockAt
  <2> QED
    BY <2>1, <2>2, <2>3 DEF TokenInv
<1>6. ASSUME NEW c \in Clients, NEW k \in Tokens, NEW h \in Tasks, TokenVisit(c, k, h)
      PROVE  TokenInv'
  <2> USE DEF TokenVisit, ClientGoes, TokenPcs
  <2>0. TokenTypes /\ ClientTypes /\ c # None
    BY TypeParts
  <2>1. ASSUME NEW j \in Tokens PROVE LockAt(j)'
    BY <2>0, <1>6 DEF TokenTypes, ClientTypes, TokenInv, LockAt
  <2>2. ASSUME NEW j \in Tokens PROVE TokenAt(j)'
    BY <2>0, <1>6 DEF TokenTypes, TokenInv, TokenAt, LockAt, historyVars
  <2>3. \A i, j \in Tokens : lock'[i] # None /\ lock'[i] = lock'[j] => i = j
    BY <2>0, <1>6 DEF TokenTypes, TokenInv, LockAt
  <2> QED
    BY <2>1, <2>2, <2>3 DEF TokenInv
<1>7. ASSUME NEW c \in Clients, NEW k \in Tokens, TokenReturn(c, k) PROVE TokenInv'
  <2> USE DEF TokenReturn, ClientGoes, TokenPcs
  <2>0. TokenTypes /\ ClientTypes /\ c # None
    BY TypeParts
  <2>1. ASSUME NEW j \in Tokens PROVE LockAt(j)'
    BY <2>0, <1>7 DEF TokenTypes, ClientTypes, TokenInv, LockAt, ClientReturns
  <2>2. ASSUME NEW j \in Tokens PROVE TokenAt(j)'
    BY <2>0, <1>7 DEF TokenTypes, TokenInv, TokenAt, LockAt, historyVars, ClientReturns
  <2>3. \A i, j \in Tokens : lock'[i] # None /\ lock'[i] = lock'[j] => i = j
    BY <2>0, <1>7 DEF TokenTypes, TokenInv, LockAt, ClientReturns
  <2> QED
    BY <2>1, <2>2, <2>3 DEF TokenInv
<1>8. ASSUME NEW c \in Clients, NEW k \in Tokens, NEW h \in Tasks, Link(c, k, h) PROVE TokenInv'
  BY <1>8 DEF Link, clientVars, TypeOK, TokenInv, LockAt, TokenAt
<1>9. CASE UNCHANGED vars
  BY <1>9 DEF vars, tokenVars, clientVars, historyVars, TokenInv, LockAt, TokenAt
<1> QED
  BY <1>1, <1>2, <1>3, <1>4, <1>5, <1>6, <1>7, <1>8, <1>9, ClientSteps DEF Next, TokenCall

\* A flag that is set, and the end of a task, stay.
LEMMA FlagsStay ==
    ASSUME TypeOK, [Next]_vars, NEW h \in Tasks
    PROVE  (cancelled[h] => cancelled'[h]) /\ (done[h] => done'[h])
<1>0. cancelled \in [Tasks -> BOOLEAN] /\ done \in [Tasks -> BOOLEAN]
  BY DEF TypeOK
<1>1. ASSUME NEW g \in Tasks, Spawn(g) \/ Work(g) \/ Unblock(g)
      PROVE  UNCHANGED cancelled /\ (UNCHANGED done \/ done' = [done EXCEPT ![g] = TRUE])
  BY <1>1 DEF Spawn, Work, Unblock, CheckCancelled, Statement, CheckReturned, StoreResult,
              SetDone, WorkerFails, handleVars
<1>2. ASSUME NEW c \in Clients, Begin(c) \/ Continue(c)
      PROVE  /\ UNCHANGED done
             /\ \/ UNCHANGED cancelled
                \/ \E g : cancelled' = [cancelled EXCEPT ![g] = TRUE]
  BY <1>2 DEF Begin, CancelCall, JoinCall, TokenCancel, Link, Continue, CancelCheck, CancelSet,
              JoinWoken, JoinTimeout, JoinReturn, StatusCancelled, StatusReturn, TokenSet,
              TokenFlag, TokenReturn, TokenVisit, handleVars
<1>3. CASE UNCHANGED vars
  BY <1>3 DEF vars, handleVars
<1> QED
  BY <1>0, <1>1, <1>2, <1>3 DEF Next

\* Whatever a token accepted is met by its cancel, or has already been.
LEMMA EscapeStep == TypeOK /\ TokenInv /\ EscapeInv /\ [Next]_vars => EscapeInv'
<1> SUFFICES ASSUME TypeOK, TokenInv, EscapeInv, [Next]_vars, NEW j \in Tokens, NEW h \in Tasks
             PROVE  EscapeAt(j, h)'
  BY DEF EscapeInv
<1>0. /\ EscapeAt(j, h) /\ LockAt(j) /\ TokenAt(j)
      /\ cancelled[h] => cancelled'[h]
      /\ done[h] => done'[h]
      /\ TokenTypes /\ ClientTypes
  BY FlagsStay, TypeParts DEF EscapeInv, TokenInv
<1> USE TasksAssumption DEF EscapeAt, Marked
<1>1. ASSUME NEW g \in Tasks, Spawn(g) \/ Work(g) \/ Unblock(g) PROVE EscapeAt(j, h)'
  BY <1>0, <1>1, WorkersLeaveClients DEF tokenVars, clientVars, historyVars
<1>2. ASSUME NEW c \in Clients, HandleCall(c) PROVE EscapeAt(j, h)'
  <2>1. cpc[c] \notin TokenPcs
    BY <1>2, HandleCallFrame
  <2>2. lock[j] # None => cpc'[lock[j]] = cpc[lock[j]] /\ on'[lock[j]] = on[lock[j]]
    BY <1>0, <1>2, <2>1, HandleCallFrame DEF LockAt, TokenTypes
  <2>3. UNCHANGED <<tokCancelled, linked, lock, todo, accepted, late>>
    BY <1>2, HandleCallFrame DEF tokenVars
  <2> QED
    BY <1>0, <2>2, <2>3
<1>3. ASSUME NEW c \in Clients, TokenSet(c) PROVE EscapeAt(j, h)'
  <2>1. cancelled'[on[c]] /\ on[c] \in Tasks
    <3>1. on[c] \in Tasks
      BY <1>0, <1>3 DEF TokenSet, ClientTypes
    <3>2. cancelled \in [Tasks -> BOOLEAN] /\ cancelled' = [cancelled EXCEPT ![on[c]] = TRUE]
      BY <1>3, TypeParts DEF TokenSet, HandleTypes
    <3> QED
      BY <3>1, <3>2, Zenon
  <2> QED
    BY <1>0, <1>3, <2>1 DEF TokenSet, ClientGoes, TokenTypes, ClientTypes, tokenVars, historyVars
<1>4. ASSUME NEW c \in Clients, NEW k \in Tokens, TokenCancel(c, k) PROVE EscapeAt(j, h)'
  BY <1>0, <1>4 DEF TokenCancel, ClientGoes, TokenTypes, ClientTypes, LockAt, TokenPcs, historyVars
<1>5. ASSUME NEW c \in Clients, NEW k \in Tokens, TokenFlag(c, k) PROVE EscapeAt(j, h)'
  <2>1. ~tokCancelled[k] /\ (j # k => lock[j] # c)
    BY <1>5 DEF TokenFlag, TokenInv, LockAt
  <2> QED
    BY <1>0, <1>5, <2>1 DEF TokenFlag, ClientGoes, TokenTypes, ClientTypes, historyVars
<1>6. ASSUME NEW c \in Clients, NEW k \in Tokens, NEW g \in Tasks, TokenVisit(c, k, g)
      PROVE  EscapeAt(j, h)'
  <2>1. tokCancelled[k] /\ (j # k => lock[j] # c)
    BY <1>6 DEF TokenVisit, TokenInv, LockAt
  <2> QED
    BY <1>0, <1>6, <2>1 DEF TokenVisit, ClientGoes, TokenTypes, ClientTypes, historyVars
<1>7. ASSUME NEW c \in Clients, NEW k \in Tokens, TokenReturn(c, k) PROVE EscapeAt(j, h)'
  <2>1. j # k => lock[j] # c
    BY <1>7 DEF TokenReturn, TokenInv
  <2> QED
    BY <1>0, <1>7, <2>1 DEF TokenReturn, ClientReturns, ClientGoes, TokenTypes, ClientTypes
<1>8. ASSUME NEW c \in Clients, NEW k \in Tokens, NEW g \in Tasks, Link(c, k, g)
      PROVE  EscapeAt(j, h)'
  <2>0. /\ accepted \in [Tokens -> SUBSET Tasks] /\ late \in [Tokens -> SUBSET Tasks]
        /\ cancelled \in [Tasks -> BOOLEAN]
    BY TypeParts DEF HistoryTypes, HandleTypes
  <2>1. UNCHANGED <<tokCancelled, lock, todo, cpc, on, done>>
    BY <1>8 DEF Link, clientVars
  <2>2. CASE tokCancelled[k]
    <3>1. /\ cancelled' = [cancelled EXCEPT ![g] = TRUE]
          /\ late' = [late EXCEPT ![k] = @ \cup {g}]
          /\ UNCHANGED <<linked, accepted>>
      BY <1>8, <2>2, Zenon DEF Link
    <3> QED
      BY <1>0, <2>0, <2>1, <3>1
  <2>3. CASE ~tokCancelled[k]
    <3>1. /\ linked' = [linked EXCEPT ![k] = @ \cup {g}]
          /\ accepted' = [accepted EXCEPT ![k] = @ \cup {g}]
          /\ UNCHANGED <<cancelled, late>>
      BY <1>8, <2>3, Zenon DEF Link
    <3> QED
      BY <1>0, <2>0, <2>1, <2>3, <3>1 DEF TokenTypes
  <2> QED
    BY <2>2, <2>3
<1>9. CASE UNCHANGED vars
  BY <1>0, <1>9 DEF vars, handleVars, tokenVars, clientVars, historyVars
<1> QED
  BY <1>1, <1>2, <1>3, <1>4, <1>5, <1>6, <1>7, <1>8, <1>9, ClientSteps DEF Next, TokenCall

\* What a caller has found out about its handle stays true.
LEMMA CallerStep == TypeOK /\ CallerInv /\ [Next]_vars => CallerInv'
<1> SUFFICES ASSUME TypeOK, CallerInv, [Next]_vars, NEW d \in Clients
             PROVE  CallerAt(d)'
  BY DEF CallerInv
<1>0. /\ CallerAt(d) /\ HandleTypes /\ ClientTypes
      /\ \A h \in Tasks : (cancelled[h] => cancelled'[h]) /\ (done[h] => done'[h])
      /\ cpc[d] \in {"joined", "statusDone"} => on[d] \in Tasks
  BY FlagsStay, TypeParts DEF CallerInv, ClientTypes
<1>f. UNCHANGED <<cpc[d], on[d], saw[d]>> => CallerAt(d)'
  BY <1>0 DEF CallerAt
<1> USE TasksAssumption DEF CallerAt
<1>1. ASSUME NEW h \in Tasks, Spawn(h) \/ Work(h) \/ Unblock(h) PROVE CallerAt(d)'
  BY <1>f, <1>1, WorkersLeaveClients DEF clientVars
<1>2. ASSUME NEW c \in Clients, HandleCall(c) PROVE CallerAt(d)'
  <2>1. CASE c # d
    BY <1>f, <1>2, <2>1, HandleCallFrame
  <2>2. CASE c = d
    <3> USE <1>0, <2>2 DEF ClientGoes, ClientReturns, ClientTypes
    <3>1. ASSUME NEW h \in Tasks, CancelCall(c, h) PROVE CallerAt(d)'
      BY <3>1 DEF CancelCall, Calls
    <3>2. ASSUME NEW h \in Tasks, NEW m \in JoinModes, JoinCall(c, h, m) PROVE CallerAt(d)'
      BY <3>2 DEF JoinCall, Calls
    <3>3. CASE CancelCheck(c)
      BY <3>3 DEF CancelCheck, AfterCancel
    <3>4. CASE CancelSet(c)
      BY <3>4 DEF CancelSet, AfterCancel
    <3>5. CASE JoinWoken(c)
      BY <3>5 DEF JoinWoken, handleVars
    <3>6. CASE JoinTimeout(c)
      BY <3>6 DEF JoinTimeout
    <3>7. CASE JoinReturn(c)
      BY <3>7 DEF JoinReturn
    <3>8. CASE StatusCancelled(c)
      BY <3>8 DEF StatusCancelled, handleVars
    <3>9. CASE StatusReturn(c)
      BY <3>9 DEF StatusReturn
    <3> QED
      BY <1>2, <3>1, <3>2, <3>3, <3>4, <3>5, <3>6, <3>7, <3>8, <3>9 DEF HandleCall
  <2> QED
    BY <2>1, <2>2
<1>3. ASSUME NEW c \in Clients, TokenSet(c) PROVE CallerAt(d)'
  BY <1>0, <1>3 DEF TokenSet, ClientGoes, ClientTypes
<1>4. ASSUME NEW c \in Clients, NEW k \in Tokens, TokenCall(c, k) PROVE CallerAt(d)'
  <2> USE <1>0 DEF ClientGoes, ClientTypes
  <2>1. CASE TokenCancel(c, k)
    BY <2>1 DEF TokenCancel
  <2>2. CASE TokenFlag(c, k)
    BY <2>2 DEF TokenFlag
  <2>3. CASE TokenReturn(c, k)
    BY <2>3 DEF TokenReturn, ClientReturns
  <2>4. ASSUME NEW h \in Tasks, TokenVisit(c, k, h) PROVE CallerAt(d)'
    BY <2>4 DEF TokenVisit
  <2>5. ASSUME NEW h \in Tasks, Link(c, k, h) PROVE CallerAt(d)'
    BY <1>f, <2>5 DEF Link, clientVars
  <2> QED
    BY <1>4, <2>1, <2>2, <2>3, <2>4, <2>5 DEF TokenCall
<1>5. CASE UNCHANGED vars
  BY <1>f, <1>5 DEF vars, clientVars
<1> QED
  BY <1>1, <1>2, <1>3, <1>4, <1>5, ClientSteps DEF Next

\* What joins have delivered agrees with what the handle holds.
LEMMA OutcomeStep ==
    TypeOK /\ WorkerInv /\ CallerInv /\ OutcomesStayTrue /\ [Next]_vars => OutcomesStayTrue'
<1> DEFINE Good(h, o) == /\ wpc[h] = "finished"
                         /\ o = "value" => result[h] = "value" /\ error[h] = "none"
                         /\ o \in {"raised", "cancelled"} => error[h] = o
                         /\ o = "join cancelled" => cancelled[h]
                         /\ o # "none"
<1> SUFFICES ASSUME TypeOK, WorkerInv, CallerInv, OutcomesStayTrue, [Next]_vars
             PROVE  \A h \in Tasks : \A o \in outcomes'[h] : Good(h, o)'
  BY DEF OutcomesStayTrue
<1>0. ASSUME NEW h \in Tasks, NEW o, Good(h, o) PROVE Good(h, o)'
  <2>1. cancelled[h] => cancelled'[h]
    BY FlagsStay
  <2>2. UNCHANGED <<wpc[h], result[h], error[h]>>
    <3>1. ASSUME NEW g \in Tasks, Spawn(g) \/ Work(g) \/ Unblock(g)
          PROVE  UNCHANGED <<wpc[h], result[h], error[h]>>
      <4>1. g # h
        BY <1>0, <3>1 DEF Spawn, Spawned, Unblock, Work, CheckCancelled, Statement,
                          CheckReturned, StoreResult, SetDone
      <4> QED
        BY <3>1, <4>1, WorkersMindTheirOwn
    <3>2. ASSUME NEW c \in Clients, Begin(c) \/ Continue(c)
          PROVE  UNCHANGED <<wpc[h], result[h], error[h]>>
      BY <3>2, ClientsLeaveWorkers
    <3>3. CASE UNCHANGED vars
      BY <3>3 DEF vars, handleVars
    <3> QED
      BY <3>1, <3>2, <3>3 DEF Next
  <2> QED
    BY <1>0, <2>1, <2>2
<1>1. ASSUME NEW h \in Tasks, UNCHANGED outcomes PROVE \A o \in outcomes'[h] : Good(h, o)'
  BY <1>0, <1>1 DEF OutcomesStayTrue
<1>2. ASSUME NEW c \in Clients, JoinReturn(c), NEW h \in Tasks, NEW o \in outcomes'[h]
      PROVE  Good(h, o)'
  <2>1. /\ on[c] \in Tasks
        /\ done[on[c]]
        /\ outcomes' = [outcomes EXCEPT ![on[c]] = @ \cup {JoinOutcome(on[c])}]
    BY <1>2, TypeParts DEF JoinReturn, ClientTypes, CallerInv, CallerAt
  <2>2. o \in outcomes[h] \/ (h = on[c] /\ o = JoinOutcome(h))
    BY <2>1, <1>2, TypeParts DEF HistoryTypes
  <2>3. Good(on[c], JoinOutcome(on[c]))
    <3>1. /\ wpc[on[c]] = "finished"
          /\ (result[on[c]] = "none") # (error[on[c]] = "none")
          /\ result[on[c]] \in {"none", "value"}
          /\ error[on[c]] \in {"none", "raised", "cancelled"}
      BY <2>1, TypeParts DEF WorkerInv, WorkerAt, Running, HandleTypes, Results, Errors
    <3> QED
      BY <3>1 DEF JoinOutcome
  <2>4. Good(h, o)
    <3>1. CASE o \in outcomes[h]
      BY <3>1 DEF OutcomesStayTrue
    <3>2. CASE h = on[c] /\ o = JoinOutcome(h)
      BY <3>2, <2>3
    <3> QED
      BY <2>2, <3>1, <3>2
  <2> QED
    BY <1>0, <2>4
<1>3. ASSUME NEW c \in Clients, HandleCall(c) PROVE UNCHANGED outcomes \/ JoinReturn(c)
  BY <1>3 DEF HandleCall, CancelCall, JoinCall, CancelCheck, CancelSet, JoinWoken, JoinTimeout,
              StatusCancelled, StatusReturn, historyVars
<1>4. ASSUME NEW c \in Clients, NEW k \in Tokens, TokenCall(c, k) PROVE UNCHANGED outcomes
  BY <1>4 DEF TokenCall, TokenCancel, TokenFlag, TokenReturn, TokenVisit, Link, historyVars
<1>5. ASSUME NEW c \in Clients, TokenSet(c) PROVE UNCHANGED outcomes
  BY <1>5 DEF TokenSet, historyVars
<1>6. ASSUME NEW h \in Tasks, Spawn(h) \/ Work(h) \/ Unblock(h) PROVE UNCHANGED outcomes
  BY <1>6, WorkersLeaveClients DEF historyVars
<1>7. CASE UNCHANGED vars
  BY <1>1, <1>7 DEF vars, historyVars
<1> QED
  BY <1>1, <1>2, <1>3, <1>4, <1>5, <1>6, <1>7, ClientSteps DEF Next

\* A status never has a result beside an error or a cancellation.
LEMMA StatusStep == TypeOK /\ CallerInv /\ StatusNeverMixes /\ [Next]_vars => StatusNeverMixes'
<1> SUFFICES ASSUME TypeOK, CallerInv, StatusNeverMixes, [Next]_vars PROVE StatusNeverMixes'
  OBVIOUS
<1>1. CASE UNCHANGED statuses
  BY <1>1 DEF StatusNeverMixes
<1>2. ASSUME NEW c \in Clients, StatusReturn(c) PROVE StatusNeverMixes'
  <2>1. /\ on[c] \in Tasks
        /\ statuses' = [statuses EXCEPT ![on[c]] = @ \cup {Status(c)}]
    BY <1>2, TypeParts DEF StatusReturn, ClientTypes
  <2>2. cpc[c] = "statusDone" /\ saw[c] => cancelled[on[c]]
    BY DEF CallerInv, CallerAt
  <2>3. Status(c).cancelled \/ Status(c).error # "none" \/ ~Status(c).done
          => Status(c).result = "none"
    BY <2>2 DEF Status
  <2>4. \A h \in Tasks : statuses'[h] \subseteq statuses[h] \cup {Status(c)}
    BY <2>1, TypeParts DEF HistoryTypes
  <2> QED
    BY <2>3, <2>4 DEF StatusNeverMixes
<1>3. ASSUME NEW c \in Clients, HandleCall(c) PROVE UNCHANGED statuses \/ StatusReturn(c)
  BY <1>3 DEF HandleCall, CancelCall, JoinCall, CancelCheck, CancelSet, JoinWoken, JoinTimeout,
              StatusCancelled, JoinReturn, historyVars
<1>4. ASSUME NEW c \in Clients, NEW k \in Tokens, TokenCall(c, k) PROVE UNCHANGED statuses
  BY <1>4 DEF TokenCall, TokenCancel, TokenFlag, TokenReturn, TokenVisit, Link, historyVars
<1>5. ASSUME NEW c \in Clients, TokenSet(c) PROVE UNCHANGED statuses
  BY <1>5 DEF TokenSet, historyVars
<1>6. ASSUME NEW h \in Tasks, Spawn(h) \/ Work(h) \/ Unblock(h) PROVE UNCHANGED statuses
  BY <1>6, WorkersLeaveClients DEF historyVars
<1>7. CASE UNCHANGED vars
  BY <1>1, <1>7 DEF vars, historyVars
<1> QED
  BY <1>1, <1>2, <1>3, <1>4, <1>5, <1>6, <1>7, ClientSteps DEF Next

-----------------------------------------------------------------------------
IInv == /\ TypeOK
        /\ WorkerInv
        /\ TokenInv
        /\ EscapeInv
        /\ CallerInv
        /\ JoinTellsTheTruth

\* The invariant is inductive, and holds of every behaviour of Tasks.
THEOREM TasksInvariant == Spec => []IInv
<1>1. Init => IInv
  <2> SUFFICES ASSUME Init PROVE IInv
    OBVIOUS
  <2>1. TypeOK
    BY DEF Init, TypeOK, Errors, Results, JoinModes
  <2>2. WorkerInv
    BY DEF Init, WorkerInv, WorkerAt, Running
  <2>3. TokenInv
    BY DEF Init, TokenInv, LockAt, TokenAt
  <2>4. EscapeInv
    BY DEF Init, EscapeInv, EscapeAt
  <2>5. CallerInv
    BY DEF Init, CallerInv, CallerAt
  <2>6. JoinTellsTheTruth
    BY DEF Init, JoinTellsTheTruth, OutcomesStayTrue, StatusNeverMixes
  <2> QED
    BY <2>1, <2>2, <2>3, <2>4, <2>5, <2>6 DEF IInv
<1>2. IInv /\ [Next]_vars => IInv'
  BY TypeStep, WorkerStep, TokenStep, EscapeStep, CallerStep, OutcomeStep, StatusStep
     DEF IInv, JoinTellsTheTruth
<1> QED
  BY <1>1, <1>2, PTL DEF Spec

\* The variables have their types.
THEOREM TasksTypeOK == Spec => []TypeOK
<1>1. IInv => TypeOK
  BY DEF IInv
<1> QED
  BY <1>1, TasksInvariant, PTL

\* A finished task has exactly one of a result and an error, however many threads
\* cancel, join and link it meanwhile.
THEOREM TasksOneOutcome == Spec => []OneOutcome
<1>1. IInv => OneOutcome
  BY DEF IInv, WorkerInv, WorkerAt, Running, OneOutcome
<1> QED
  BY <1>1, TasksInvariant, PTL

\* What joins and join statuses tell their callers is consistent and stays true.
THEOREM TasksJoinTellsTheTruth == Spec => []JoinTellsTheTruth
<1>1. IInv => JoinTellsTheTruth
  BY DEF IInv
<1> QED
  BY <1>1, TasksInvariant, PTL

\* No linked handle slips through a cancelled token, whatever the order of its link,
\* of the cancel and of the end of its task.
THEOREM TasksNoHandleEscapes == Spec => []NoHandleEscapes
<1>1. IInv => NoHandleEscapes
  <2> SUFFICES ASSUME IInv, NEW k \in Tokens, tokCancelled[k], lock[k] = None
               PROVE  \A h \in accepted[k] \cup late[k] : cancelled[h] \/ done[h]
    BY DEF NoHandleEscapes
  <2>1. accepted[k] \subseteq Tasks /\ late[k] \subseteq Tasks
    BY TypeParts DEF IInv, HistoryTypes
  <2>2. todo[k] = {} /\ \A h \in Tasks : EscapeAt(k, h) /\ ~Marked(k, h)
    BY DEF IInv, TokenInv, TokenAt, EscapeInv, Marked
  <2> QED
    BY <2>1, <2>2 DEF EscapeAt
<1> QED
  BY <1>1, TasksInvariant, PTL

\* At most one cancel of a token succeeds, and its reason is the one that is read.
THEOREM TasksFirstCancelWins == Spec => []FirstCancelWins
<1>1. IInv => FirstCancelWins
  BY DEF IInv, TokenInv, TokenAt, FirstCancelWins
<1> QED
  BY <1>1, TasksInvariant, PTL

-----------------------------------------------------------------------------
\* What a client's step does to the flags: one of a handle it is past its look at
\* done for, or one that a cancelled token meets.
LEMMA FlagWriters ==
    ASSUME NEW c \in Clients, Begin(c) \/ Continue(c)
    PROVE  \/ UNCHANGED cancelled
           \/ /\ cpc[c] \in {"cancelSet", "tokenSet"}
              /\ cancelled' = [cancelled EXCEPT ![on[c]] = TRUE]
           \/ \E k \in Tokens, g \in Tasks : /\ cancelled' = [cancelled EXCEPT ![g] = TRUE]
                                             /\ late' = [late EXCEPT ![k] = @ \cup {g}]
<1> USE DEF handleVars
<1>1. CASE CancelSet(c)
  BY <1>1 DEF CancelSet
<1>2. CASE TokenSet(c)
  BY <1>2 DEF TokenSet
<1>3. ASSUME NEW k \in Tokens, NEW g \in Tasks, Link(c, k, g)
      PROVE  \/ UNCHANGED cancelled
             \/ /\ cancelled' = [cancelled EXCEPT ![g] = TRUE]
                /\ late' = [late EXCEPT ![k] = @ \cup {g}]
  BY <1>3, Zenon DEF Link
<1> QED
  BY <1>1, <1>2, <1>3
     DEF Begin, CancelCall, JoinCall, TokenCancel, Continue, CancelCheck, JoinWoken, JoinTimeout,
         JoinReturn, StatusCancelled, StatusReturn, TokenFlag, TokenReturn, TokenVisit

PastDone == {"cancelSet", "tokenSet"}

\* A client gets past its look at done only for a task that has not finished.
LEMMA PastDoneSteps ==
    ASSUME TypeOK, NEW c \in Clients, Begin(c) \/ Continue(c)
    PROVE  /\ \A d \in Clients \ {c} : cpc'[d] = cpc[d] /\ on'[d] = on[d]
           /\ cpc'[c] \in PastDone => ~done[on'[c]]
<1> DEFINE Clear == /\ \A d \in Clients \ {c} : cpc'[d] = cpc[d] /\ on'[d] = on[d]
                    /\ cpc'[c] \in PastDone => ~done[on'[c]]
<1>0. /\ cpc \in [Clients -> {"idle", "cancelCheck", "cancelSet", "wait", "joined", "pending",
                              "statusDone", "statusPending", "tokenFlag", "tokenLoop", "tokenSet"}]
      /\ on \in [Clients -> Tasks \cup {None}]
  BY DEF TypeOK
<1> USE <1>0 DEF ClientGoes, ClientReturns, AfterCancel, clientVars, PastDone
<1>1. ASSUME NEW h \in Tasks, CancelCall(c, h) PROVE Clear
  BY <1>1 DEF CancelCall, Calls
<1>2. ASSUME NEW h \in Tasks, NEW m \in JoinModes, JoinCall(c, h, m) PROVE Clear
  BY <1>2 DEF JoinCall, Calls
<1>3. CASE CancelCheck(c)
  BY <1>3 DEF CancelCheck
<1>4. CASE CancelSet(c)
  BY <1>4 DEF CancelSet
<1>5. CASE JoinWoken(c) \/ JoinTimeout(c) \/ JoinReturn(c)
  BY <1>5 DEF JoinWoken, JoinTimeout, JoinReturn
<1>6. CASE StatusCancelled(c) \/ StatusReturn(c)
  BY <1>6 DEF StatusCancelled, StatusReturn
<1>7. CASE TokenSet(c)
  BY <1>7 DEF TokenSet
<1>8. ASSUME NEW k \in Tokens, TokenCancel(c, k) \/ TokenFlag(c, k) \/ TokenReturn(c, k) PROVE Clear
  BY <1>8 DEF TokenCancel, TokenFlag, TokenReturn
<1>9. ASSUME NEW k \in Tokens, NEW h \in Tasks, TokenVisit(c, k, h) PROVE Clear
  BY <1>9 DEF TokenVisit
<1>10. ASSUME NEW k \in Tokens, NEW h \in Tasks, Link(c, k, h) PROVE Clear
  BY <1>10 DEF Link
<1> QED
  BY <1>1, <1>2, <1>3, <1>4, <1>5, <1>6, <1>7, <1>8, <1>9, <1>10 DEF Begin, Continue

\* No client sets the flag of a settled task, or gets past its look at done.
LEMMA SettledStays ==
    ASSUME TypeOK, [Next]_vars, NEW h \in Tasks, Settled(h)
    PROVE  Settled(h)' \/ \E k \in Tokens : h \in late'[k]
<1>0. /\ cancelled \in [Tasks -> BOOLEAN] /\ late \in [Tokens -> SUBSET Tasks]
      /\ done[h] /\ ~cancelled[h] /\ \A d \in Clients : cpc[d] \in PastDone => on[d] # h
  BY DEF TypeOK, Settled, PastDone
<1>1. done'[h]
  BY <1>0, FlagsStay
<1>2. ASSUME NEW g \in Tasks, Spawn(g) \/ Work(g) \/ Unblock(g) PROVE Settled(h)'
  BY <1>0, <1>1, <1>2, WorkersLeaveClients DEF Settled, clientVars, PastDone
<1>3. CASE UNCHANGED vars
  BY <1>0, <1>1, <1>3 DEF vars, handleVars, clientVars, Settled, PastDone
<1>4. ASSUME NEW c \in Clients, Begin(c) \/ Continue(c),
             ~\E k \in Tokens : h \in late'[k]
      PROVE  Settled(h)'
  <2>1. ~cancelled'[h]
    <3>1. CASE UNCHANGED cancelled
      BY <1>0, <3>1
    <3>2. CASE cpc[c] \in PastDone /\ cancelled' = [cancelled EXCEPT ![on[c]] = TRUE]
      BY <1>0, <3>2
    <3>3. ASSUME NEW k \in Tokens, NEW g \in Tasks, cancelled' = [cancelled EXCEPT ![g] = TRUE],
                 late' = [late EXCEPT ![k] = @ \cup {g}]
          PROVE  ~cancelled'[h]
      <4>1. g # h
        BY <1>0, <1>4, <3>3
      <4> QED
        BY <1>0, <3>3, <4>1
    <3> QED
      BY <1>4, <3>1, <3>2, <3>3, FlagWriters DEF PastDone
  <2>2. \A d \in Clients : cpc'[d] \in PastDone => on'[d] # h
    BY <1>0, <1>4, PastDoneSteps
  <2> QED
    BY <1>1, <2>1, <2>2 DEF Settled, PastDone
<1> QED
  BY <1>2, <1>3, <1>4 DEF Next

\* Completion wins: no cancel that begins after a task has finished changes what its
\* joins return, except through a link to a token already cancelled.
THEOREM TasksCompletionWins == Spec => CompletionWins
<1>1. TypeOK /\ [Next]_vars =>
        [\A h \in Tasks : Settled(h) => Settled(h)' \/ \E k \in Tokens : h \in late'[k]]_vars
  BY SettledStays
<1> QED
  BY <1>1, TasksTypeOK, PTL DEF Spec, CompletionWins
=============================================================================
