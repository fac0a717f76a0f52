-------------------------- MODULE TaskScopesProofs --------------------------
(***************************************************************************)
(* What a task block promises even when threads take each other's scopes:  *)
(* once a scope has been left and no error has cut its loop short, its     *)
(* handles have resolved, except those that came too late; and all that a  *)
(* block promises as long as one thread alone has blocks and spawns.  For  *)
(* any number of tasks and of blocks.                                      *)
(*                                                                         *)
(* The invariant says that a scope has one place, on the list or with the  *)
(* one thread that joins its handles (OnePlace), and that what this        *)
(* thread's loop has come past has resolved (JoinedSoFar).  For one thread *)
(* alone (AloneInv) the list of scopes is the nesting of its blocks.       *)
(*                                                                         *)
(* Whoever pushes and pops, the list is as long as there are open blocks   *)
(* (Balance).                                                              *)
(***************************************************************************)
EXTENDS TaskScopes, SequenceTheorems, FiniteSetTheorems, TLAPS

\* A scope is on the list once, or it is being left by one thread.
OnePlace ==
    /\ \A i, j \in DOMAIN scopes : scopes[i] = scopes[j] => i = j
    /\ \A t \in Threads : \A i \in DOMAIN scopes : scopes[i] # popped[t]
    /\ \A t, u \in Threads : popped[t] # 0 /\ popped[t] = popped[u] => t = u

\* The first n handles of a scope have finished or are cancelled.
ResolvedUpTo(s, n) == /\ n \in 0..Len(handles[s])
                      /\ \A i \in 1..n : Resolved(handles[s][i])

JoinedSoFar == \A t \in Threads : popped[t] # 0 => ResolvedUpTo(popped[t], visited[t])

IInv == TypeOK /\ OnePlace /\ JoinedSoFar /\ RegisteredSettles

-----------------------------------------------------------------------------
\* The types.

LEMMA FrontType == ASSUME NEW S, NEW s \in Seq(S), s # <<>>
                   PROVE  /\ Front(s) \in Seq(S)
                          /\ Len(Front(s)) = Len(s) - 1
                          /\ \A i \in 1..(Len(s) - 1) : Front(s)[i] = s[i]
                          /\ Last(s) \in S
                          /\ Last(s) = s[Len(s)]
                          /\ Len(s) \in DOMAIN s
                          /\ DOMAIN Front(s) = 1..(Len(s) - 1)
<1>1. Len(s) \in Nat \ {0} /\ DOMAIN s = 1..Len(s)
  OBVIOUS
<1>2. \A i \in 1..Len(s) : s[i] \in S
  BY <1>1
<1>3. Front(s) = [i \in 1..(Len(s) - 1) |-> s[i]]
  BY <1>1 DEF Front
<1>4. Front(s) \in Seq(S) /\ Len(Front(s)) = Len(s) - 1
  BY <1>1, <1>2, <1>3
<1> QED
  BY <1>1, <1>2, <1>3, <1>4 DEF Last

LEMMA InitType == Init => TypeOK
  BY ScopesAssumption DEF Init, TypeOK, Threads

LEMMA EnterBlockType == ASSUME TypeOK, NEW t \in Threads, EnterBlock(t) PROVE TypeOK'
<1>1. handles' \in Seq(Seq(Tasks)) /\ Len(handles') = Len(handles) + 1
  BY DEF TypeOK, EnterBlock
<1>2. DOMAIN handles \subseteq DOMAIN handles' /\ Len(handles) + 1 \in DOMAIN handles'
  BY <1>1 DEF TypeOK
<1>3. scopes' \in Seq(DOMAIN handles')
  BY <1>2 DEF TypeOK, EnterBlock
<1>4. blocks' \in [Threads -> Seq(SUBSET Tasks)]
  BY DEF TypeOK, EnterBlock
<1>5. Len(handles') <= MaxBlocks
  BY <1>1, ScopesAssumption DEF TypeOK, EnterBlock
<1> QED
  BY <1>1, <1>2, <1>3, <1>4, <1>5 DEF TypeOK, EnterBlock, threadVars, AtStatement

LEMMA StartTaskType == ASSUME TypeOK, NEW t \in Threads, NEW h \in Tasks, StartTask(t, h) PROVE TypeOK'
<1>1. h \in Threads /\ h # t
  BY DEF StartTask, AtStatement, Threads
<1>2. blocks' \in [Threads -> Seq(SUBSET Tasks)]
  <2>1. CASE blocks[t] # <<>>
    <3> DEFINE n == Len(blocks[t])
    <3>1. blocks[t] \in Seq(SUBSET Tasks) /\ n \in DOMAIN blocks[t] /\ blocks[t][n] \in SUBSET Tasks
      BY <2>1, FrontType DEF TypeOK
    <3>2. [blocks[t] EXCEPT ![n] = @ \cup {h}] \in Seq(SUBSET Tasks)
      BY <3>1
    <3>3. blocks' = [blocks EXCEPT ![t] = [blocks[t] EXCEPT ![n] = @ \cup {h}]]
      BY <2>1 DEF StartTask
    <3> QED
      BY <3>2, <3>3 DEF TypeOK
  <2> QED
    BY <2>1 DEF TypeOK, StartTask
<1>3. outer' \subseteq Tasks
  BY DEF TypeOK, StartTask
<1>4. /\ pc' \in [Threads -> {"off", "run", "register", "add", "exit", "done"}]
      /\ starting' \in [Threads -> SUBSET Tasks]
  BY DEF TypeOK, StartTask
<1>5. \A u \in Threads : /\ pc'[u] \in {"register", "add"} <=> starting'[u] # {}
                         /\ pc'[u] = "add" <=> target[u] # 0
                         /\ popped[u] # 0 => pc'[u] = "exit"
  BY <1>1 DEF TypeOK, StartTask, AtStatement
<1> QED
  BY <1>2, <1>3, <1>4, <1>5 DEF TypeOK, StartTask

LEMMA RegisterTaskType == ASSUME TypeOK, NEW t \in Threads, RegisterTask(t) PROVE TypeOK'
<1>1. scopes # <<>> => Last(scopes) \in DOMAIN handles /\ Last(scopes) # 0
  BY FrontType DEF TypeOK
<1>2. /\ pc' \in [Threads -> {"off", "run", "register", "add", "exit", "done"}]
      /\ starting' \in [Threads -> SUBSET Tasks]
      /\ target' \in [Threads -> {0} \cup DOMAIN handles]
  <2>1. /\ pc \in [Threads -> {"off", "run", "register", "add", "exit", "done"}]
        /\ starting \in [Threads -> SUBSET Tasks]
        /\ target \in [Threads -> {0} \cup DOMAIN handles]
    BY DEF TypeOK
  <2> QED
    BY <1>1, <2>1 DEF RegisterTask, ThreadGoes
<1>3. \A u \in Threads : /\ pc'[u] \in {"register", "add"} <=> starting'[u] # {}
                         /\ pc'[u] = "add" <=> target'[u] # 0
                         /\ popped[u] # 0 => pc'[u] = "exit"
  BY <1>1 DEF TypeOK, RegisterTask, ThreadGoes
<1> QED
  BY <1>2, <1>3 DEF TypeOK, RegisterTask, history

\* What add_handle does to the handles of the scope, and to no other.
LEMMA Added ==
    ASSUME TypeOK, NEW t \in Threads, AddHandle(t)
    PROVE  /\ target[t] \in DOMAIN handles
           /\ \E h \in starting[t] :
                 /\ h \in Tasks
                 /\ handles' = [handles EXCEPT ![target[t]] = Append(@, h)]
                 /\ late' = IF HasBeenLeft(target[t]) THEN late \cup {h} ELSE late
           /\ handles' \in Seq(Seq(Tasks))
           /\ Len(handles') = Len(handles)
           /\ DOMAIN handles' = DOMAIN handles
<1>1. target[t] \in DOMAIN handles
  BY DEF TypeOK, AddHandle
<1>2. PICK h \in starting[t] :
         /\ handles' = [handles EXCEPT ![target[t]] = Append(@, h)]
         /\ late' = IF HasBeenLeft(target[t]) THEN late \cup {h} ELSE late
  BY DEF AddHandle
<1>3. h \in Tasks /\ handles \in Seq(Seq(Tasks))
  BY DEF TypeOK
<1>4. Append(handles[target[t]], h) \in Seq(Tasks)
  BY <1>1, <1>3
<1>5. handles' \in Seq(Seq(Tasks)) /\ Len(handles') = Len(handles) /\ DOMAIN handles' = DOMAIN handles
  BY <1>1, <1>2, <1>3, <1>4
<1> QED
  BY <1>1, <1>2, <1>3, <1>5

LEMMA AddHandleType == ASSUME TypeOK, NEW t \in Threads, AddHandle(t) PROVE TypeOK'
<1>1. late' \subseteq Tasks
  <2>1. late \subseteq Tasks
    BY DEF TypeOK
  <2> QED
    BY <2>1, Added
<1>2. /\ pc' \in [Threads -> {"off", "run", "register", "add", "exit", "done"}]
      /\ starting' \in [Threads -> SUBSET Tasks]
      /\ target' \in [Threads -> {0} \cup DOMAIN handles]
  BY DEF TypeOK, AddHandle, ThreadGoes
<1>3. \A u \in Threads : /\ pc'[u] \in {"register", "add"} <=> starting'[u] # {}
                         /\ pc'[u] = "add" <=> target'[u] # 0
                         /\ popped[u] # 0 => pc'[u] = "exit"
  BY DEF TypeOK, AddHandle, ThreadGoes
<1> QED
  BY Added, <1>1, <1>2, <1>3 DEF TypeOK, AddHandle

LEMMA ExitBlockType == ASSUME TypeOK, NEW t \in Threads, ExitBlock(t) PROVE TypeOK'
<1>1. scopes' \in Seq(DOMAIN handles)
  BY FrontType DEF TypeOK, ExitBlock
<1>2. popped' \in [Threads -> {0} \cup DOMAIN handles]
  BY FrontType DEF TypeOK, ExitBlock
<1>3. Front(blocks[t]) \in Seq(SUBSET Tasks) /\ Last(blocks[t]) \in SUBSET Tasks
  BY FrontType DEF TypeOK, ExitBlock
<1>4. blocks' \in [Threads -> Seq(SUBSET Tasks)] /\ leaving' \in [Threads -> SUBSET Tasks]
  BY <1>3 DEF TypeOK, ExitBlock
<1>5. /\ pc' \in [Threads -> {"off", "run", "register", "add", "exit", "done"}]
      /\ visited' \in [Threads -> Nat]
  BY DEF TypeOK, ExitBlock, ThreadGoes
<1>6. \A u \in Threads : /\ pc'[u] \in {"register", "add"} <=> starting[u] # {}
                         /\ pc'[u] = "add" <=> target[u] # 0
                         /\ popped'[u] # 0 => pc'[u] = "exit"
  BY DEF TypeOK, ExitBlock, ThreadGoes
<1> QED
  BY <1>1, <1>2, <1>4, <1>5, <1>6 DEF TypeOK, ExitBlock

\* The handle a thread's loop has come to.
LEMMA NextHandle ==
    ASSUME TypeOK, NEW t \in Threads, JoinNext(t)
    PROVE  /\ popped[t] \in DOMAIN handles
           /\ visited[t] + 1 \in DOMAIN handles[popped[t]]
           /\ handles[popped[t]][visited[t] + 1] \in Tasks
  BY DEF TypeOK, JoinNext, MoreHandles

LEMMA JoinNextType == ASSUME TypeOK, NEW t \in Threads, JoinNext(t) PROVE TypeOK'
<1> DEFINE h == handles[popped[t]][visited[t] + 1]
<1>0. h \in Tasks /\ popped[t] \in DOMAIN handles
  BY NextHandle
<1>1. JoinTimesOut(t, h) \/ JoinSucceeds(t, h) \/ JoinRaises(t, h)
  BY DEF JoinNext
<1> HIDE DEF h
<1>2. /\ popped' \in [Threads -> {0} \cup DOMAIN handles]
      /\ \A u \in Threads : popped'[u] # 0 => pc[u] = "exit"
      /\ visited' \in [Threads -> Nat]
      /\ cancelled' \subseteq Tasks
      /\ expired' \subseteq Tasks
      /\ cut' \subseteq DOMAIN handles
  <2>1. /\ popped \in [Threads -> {0} \cup DOMAIN handles]
        /\ \A u \in Threads : popped[u] # 0 => pc[u] = "exit"
        /\ visited \in [Threads -> Nat]
        /\ cancelled \subseteq Tasks /\ expired \subseteq Tasks /\ cut \subseteq DOMAIN handles
    BY DEF TypeOK
  <2>2. CASE JoinTimesOut(t, h)
    BY <1>0, <2>1, <2>2 DEF JoinTimesOut
  <2>3. CASE JoinSucceeds(t, h)
    BY <1>0, <2>1, <2>3 DEF JoinSucceeds
  <2>4. CASE JoinRaises(t, h)
    BY <1>0, <2>1, <2>4 DEF JoinRaises
  <2> QED
    BY <1>1, <2>2, <2>3, <2>4
<1> QED
  BY <1>2 DEF TypeOK, JoinNext

LEMMA AfterBlockType == ASSUME TypeOK, NEW t \in Threads, AfterBlock(t) PROVE TypeOK'
<1>1. /\ pc' \in [Threads -> {"off", "run", "register", "add", "exit", "done"}]
      /\ visited' \in [Threads -> Nat]
      /\ popped' \in [Threads -> {0} \cup DOMAIN handles]
      /\ left' \subseteq Tasks
      /\ leaving' \in [Threads -> SUBSET Tasks]
  BY DEF TypeOK, AfterBlock, ThreadGoes
<1>2. \A u \in Threads : /\ pc'[u] \in {"register", "add"} <=> starting[u] # {}
                         /\ pc'[u] = "add" <=> target[u] # 0
                         /\ popped'[u] # 0 => pc'[u] = "exit"
  BY DEF TypeOK, AfterBlock, ThreadGoes
<1> QED
  BY <1>1, <1>2 DEF TypeOK, AfterBlock

LEMMA FinishType == ASSUME TypeOK, NEW t \in Threads, Finish(t) PROVE TypeOK'
<1>1. pc' \in [Threads -> {"off", "run", "register", "add", "exit", "done"}]
  BY DEF TypeOK, Finish, ThreadGoes
<1>2. \A u \in Threads : /\ pc'[u] \in {"register", "add"} <=> starting[u] # {}
                         /\ pc'[u] = "add" <=> target[u] # 0
                         /\ popped[u] # 0 => pc'[u] = "exit"
  BY DEF TypeOK, Finish, ThreadGoes
<1>3. failed' \subseteq Failing
  BY DEF TypeOK, Finish
<1> QED
  BY <1>1, <1>2, <1>3 DEF TypeOK, Finish, threadVars, history

LEMMA CancelTaskType == ASSUME TypeOK, NEW t \in Threads, NEW h \in Tasks, CancelTask(t, h) PROVE TypeOK'
  BY DEF TypeOK, CancelTask, threadVars, history

\* The variables keep their types.
LEMMA TypeStep == TypeOK /\ [Next]_vars => TypeOK'
<1> SUFFICES ASSUME TypeOK, [Next]_vars PROVE TypeOK'
  OBVIOUS
<1>1. CASE UNCHANGED vars
  BY <1>1 DEF TypeOK, vars, threadVars, history
<1> QED
  BY <1>1, EnterBlockType, StartTaskType, RegisterTaskType, AddHandleType, ExitBlockType,
     JoinNextType, AfterBlockType, FinishType, CancelTaskType DEF Next

-----------------------------------------------------------------------------
\* What every step keeps: the handles of a scope, and that a handle has resolved.

Grown(s) == /\ s \in DOMAIN handles'
            /\ Len(handles[s]) <= Len(handles'[s])
            /\ \A i \in 1..Len(handles[s]) : handles'[s][i] = handles[s][i]

LEMMA HandlesStay == ASSUME TypeOK, [Next]_vars, NEW s \in DOMAIN handles PROVE Grown(s)
<1>0. /\ handles \in Seq(Seq(Tasks)) /\ s \in 1..Len(handles)
      /\ handles[s] \in Seq(Tasks)
  BY DEF TypeOK
<1>1. CASE handles' = handles
  BY <1>0, <1>1 DEF Grown
<1>2. ASSUME NEW t \in Threads, EnterBlock(t) PROVE Grown(s)
  <2>1. handles' = Append(handles, <<>>)
    BY <1>2 DEF EnterBlock
  <2> QED
    BY <1>0, <2>1 DEF Grown
<1>3. ASSUME NEW t \in Threads, AddHandle(t) PROVE Grown(s)
  <2>1. PICK h \in Tasks : /\ target[t] \in DOMAIN handles
                           /\ handles' = [handles EXCEPT ![target[t]] = Append(@, h)]
                           /\ DOMAIN handles' = DOMAIN handles
    BY <1>3, Added
  <2>2. CASE s = target[t]
    BY <1>0, <2>1, <2>2 DEF Grown
  <2>3. CASE s # target[t]
    BY <1>0, <2>1, <2>3 DEF Grown
  <2> QED
    BY <2>2, <2>3
<1> QED
  BY <1>1, <1>2, <1>3 DEF Next, vars, StartTask, CancelTask, RegisterTask, ExitBlock,
     JoinNext, AfterBlock, Finish

LEMMA ResolvedStays == ASSUME TypeOK, [Next]_vars, NEW h \in Tasks, Resolved(h) PROVE Resolved(h)'
<1>0. h \in Threads /\ pc \in [Threads -> {"off", "run", "register", "add", "exit", "done"}]
  BY DEF TypeOK, Threads
<1>1. pc[h] = "done" => pc'[h] = "done"
  <2>1. ASSUME NEW t \in Threads, NEW k \in Tasks, StartTask(t, k) PROVE pc[h] = "done" => pc'[h] = "done"
    BY <1>0, <2>1 DEF StartTask, AtStatement
  <2>2. ASSUME NEW t \in Threads, RegisterTask(t) \/ AddHandle(t) \/ ExitBlock(t) \/ AfterBlock(t) \/ Finish(t)
        PROVE  pc[h] = "done" => pc'[h] = "done"
    <3>1. pc[t] # "done" /\ \E p : pc' = [pc EXCEPT ![t] = p]
      BY <2>2 DEF RegisterTask, AddHandle, ExitBlock, AfterBlock, Finish, ThreadGoes
    <3> QED
      BY <1>0, <3>1
  <2>3. CASE pc' = pc
    BY <2>3
  <2> QED
    BY <2>1, <2>2, <2>3 DEF Next, vars, EnterBlock, CancelTask, JoinNext
<1>2. cancelled \subseteq cancelled'
  <2>1. ASSUME NEW t \in Threads, JoinNext(t) PROVE cancelled \subseteq cancelled'
    BY <2>1 DEF JoinNext, JoinTimesOut, JoinSucceeds, JoinRaises
  <2> QED
    BY <2>1, SMTT(30) DEF Next, vars, EnterBlock, StartTask, CancelTask, RegisterTask, AddHandle, ExitBlock,
       AfterBlock, Finish
<1> QED
  BY <1>1, <1>2 DEF Resolved

LEMMA LateStays == [Next]_vars => late \subseteq late' /\ cut \subseteq cut'
  BY DEF Next, vars, history, EnterBlock, StartTask, CancelTask, RegisterTask, AddHandle, ExitBlock,
     JoinNext, JoinTimesOut, JoinSucceeds, JoinRaises, AfterBlock, Finish

LEMMA ResolvedUpToStays ==
    ASSUME TypeOK, [Next]_vars, NEW s \in DOMAIN handles, NEW n, ResolvedUpTo(s, n)
    PROVE  ResolvedUpTo(s, n)'
<1>0. TypeOK' /\ Grown(s)
  BY TypeStep, HandlesStay
<1>1. handles[s] \in Seq(Tasks) /\ handles'[s] \in Seq(Tasks)
  BY <1>0 DEF TypeOK, Grown
<1>2. n \in 0..Len(handles'[s])
  BY <1>0, <1>1 DEF ResolvedUpTo, Grown
<1>3. ASSUME NEW i \in 1..n PROVE Resolved(handles[s][i])'
  <2>1. i \in 1..Len(handles[s]) /\ handles[s][i] \in Tasks /\ Resolved(handles[s][i])
    BY <1>1 DEF ResolvedUpTo
  <2>2. handles'[s][i] = handles[s][i]
    BY <1>0, <2>1 DEF Grown
  <2>3. \A h \in Tasks : Resolved(h) => Resolved(h)'
    BY ResolvedStays
  <2> QED
    BY <2>1, <2>2, <2>3 DEF Resolved
<1> QED
  BY <1>2, <1>3 DEF ResolvedUpTo

-----------------------------------------------------------------------------
\* Scopes change their place in three actions only.

LEMMA OnePlaceStep == TypeOK /\ OnePlace /\ [Next]_vars => OnePlace'
<1> SUFFICES ASSUME TypeOK, OnePlace, [Next]_vars PROVE OnePlace'
  OBVIOUS
<1>0. /\ scopes \in Seq(DOMAIN handles) /\ handles \in Seq(Seq(Tasks))
      /\ DOMAIN scopes = 1..Len(scopes) /\ Len(scopes) \in Nat
      /\ DOMAIN handles = 1..Len(handles) /\ Len(handles) \in Nat
      /\ popped \in [Threads -> {0} \cup DOMAIN handles]
  BY DEF TypeOK
<1>1. CASE UNCHANGED <<scopes, popped>>
  BY <1>1 DEF OnePlace
<1>2. ASSUME NEW t \in Threads, EnterBlock(t) PROVE OnePlace'
  <2>1. scopes' = Append(scopes, Len(handles) + 1) /\ popped' = popped
    BY <1>2 DEF EnterBlock, threadVars
  <2>2. /\ DOMAIN scopes' = 1..(Len(scopes) + 1)
        /\ \A i \in 1..Len(scopes) : scopes'[i] = scopes[i]
        /\ scopes'[Len(scopes) + 1] = Len(handles) + 1
    BY <1>0, <2>1
  <2>3. \A i \in 1..Len(scopes) : scopes[i] # Len(handles) + 1
    BY <1>0
  <2>4. \A u \in Threads : popped[u] # Len(handles) + 1
    BY <1>0
  <2> QED
    <3>1. \A i \in DOMAIN scopes' : i \in DOMAIN scopes \/ i = Len(scopes) + 1
      <4>1. \A n \in Nat : \A i \in 1..(n + 1) : i \in 1..n \/ i = n + 1
        OBVIOUS
      <4>2. Len(scopes) \in Nat /\ DOMAIN scopes = 1..Len(scopes)
        BY <1>0
      <4> QED
        BY <2>2, <4>1, <4>2
    <3>2. \A i \in DOMAIN scopes : scopes'[i] = scopes[i] /\ scopes[i] # Len(handles) + 1
      BY <1>0, <2>2, <2>3
    <3>3. \A i, j \in DOMAIN scopes' : scopes'[i] = scopes'[j] => i = j
      BY <2>2, <3>1, <3>2 DEF OnePlace
    <3>4. \A u \in Threads : \A i \in DOMAIN scopes' : scopes'[i] # popped'[u]
      BY <2>1, <2>2, <2>4, <3>1, <3>2 DEF OnePlace
    <3> QED
      BY <2>1, <3>3, <3>4 DEF OnePlace
<1>3. ASSUME NEW t \in Threads, ExitBlock(t) PROVE OnePlace'
  <2>1. CASE scopes = <<>>
    BY <1>0, <1>3, <2>1 DEF ExitBlock, OnePlace
  <2>2. CASE scopes # <<>>
    <3>1. scopes' = Front(scopes) /\ popped' = [popped EXCEPT ![t] = Last(scopes)]
      BY <1>3, <2>2 DEF ExitBlock
    <3>2. /\ DOMAIN scopes' = 1..(Len(scopes) - 1)
          /\ \A i \in 1..(Len(scopes) - 1) : scopes'[i] = scopes[i]
          /\ Last(scopes) = scopes[Len(scopes)]
          /\ Len(scopes) \in DOMAIN scopes
      BY <1>0, <2>2, <3>1, FrontType
    <3>3. \A i \in DOMAIN scopes' : i \in DOMAIN scopes /\ i # Len(scopes) /\ scopes'[i] = scopes[i]
      <4>1. \A i \in 1..(Len(scopes) - 1) : i \in 1..Len(scopes) /\ i # Len(scopes)
        <5>1. \A n \in Nat : \A i \in 1..(n - 1) : i \in 1..n /\ i # n
          OBVIOUS
        <5>2. Len(scopes) \in Nat
          BY <1>0
        <5> QED
          BY <5>1, <5>2
      <4> QED
        BY <1>0, <3>2, <4>1
    <3>4. \A i, j \in DOMAIN scopes' : scopes'[i] = scopes'[j] => i = j
      BY <3>3 DEF OnePlace
    <3>5. \A i \in DOMAIN scopes' : scopes'[i] # Last(scopes)
      BY <3>2, <3>3 DEF OnePlace
    <3>6. \A v \in Threads : popped'[v] = IF v = t THEN Last(scopes) ELSE popped[v]
      BY <1>0, <3>1
    <3>7. \A v \in Threads : popped[v] # Last(scopes)
      BY <3>2 DEF OnePlace
    <3>8. \A v \in Threads : \A i \in DOMAIN scopes' : scopes'[i] # popped'[v]
      BY <3>5, <3>6, <3>3 DEF OnePlace
    <3>9. \A v, w \in Threads : popped'[v] # 0 /\ popped'[v] = popped'[w] => v = w
      BY <3>6, <3>7 DEF OnePlace
    <3> QED
      BY <3>4, <3>8, <3>9 DEF OnePlace
  <2> QED
    BY <2>1, <2>2
<1>4. ASSUME NEW t \in Threads, JoinNext(t) \/ AfterBlock(t) PROVE OnePlace'
  <2>1. scopes' = scopes /\ (popped' = popped \/ popped' = [popped EXCEPT ![t] = 0])
    BY <1>4 DEF JoinNext, JoinTimesOut, JoinSucceeds, JoinRaises, AfterBlock
  <2>2. \A i \in DOMAIN scopes : scopes[i] # 0
    BY <1>0
  <2> QED
    BY <1>0, <2>1, <2>2 DEF OnePlace
<1> QED
  BY <1>1, <1>2, <1>3, <1>4 DEF Next, vars, threadVars, StartTask, CancelTask, RegisterTask,
     AddHandle, Finish

LEMMA JoinedStep == TypeOK /\ JoinedSoFar /\ [Next]_vars => JoinedSoFar'
<1> SUFFICES ASSUME TypeOK, JoinedSoFar, [Next]_vars, NEW u \in Threads, popped'[u] # 0
             PROVE  ResolvedUpTo(popped[u], visited[u])'
  BY DEF JoinedSoFar
<1>0. TypeOK'
  BY TypeStep
<1>1. CASE popped'[u] = popped[u] /\ visited'[u] = visited[u]
  <2>1. popped[u] \in DOMAIN handles /\ ResolvedUpTo(popped[u], visited[u])
    BY <1>1 DEF JoinedSoFar, TypeOK
  <2>2. \A s \in DOMAIN handles, n \in Nat : ResolvedUpTo(s, n) => ResolvedUpTo(s, n)'
    BY ResolvedUpToStays
  <2>3. visited[u] \in Nat
    BY DEF TypeOK
  <2> QED
    BY <1>1, <2>1, <2>2, <2>3 DEF ResolvedUpTo
<1>2. ASSUME ExitBlock(u) PROVE ResolvedUpTo(popped[u], visited[u])'
  <2>1. visited'[u] = 0 /\ popped'[u] \in DOMAIN handles'
    BY <1>0, <1>2 DEF TypeOK, ExitBlock
  <2>2. handles'[popped'[u]] \in Seq(Tasks)
    BY <1>0, <2>1 DEF TypeOK
  <2> QED
    BY <2>1, <2>2 DEF ResolvedUpTo
<1>3. ASSUME JoinNext(u) PROVE ResolvedUpTo(popped[u], visited[u])'
  <2> DEFINE h == handles[popped[u]][visited[u] + 1]
  <2>1. /\ popped[u] \in DOMAIN handles
        /\ visited[u] + 1 \in DOMAIN handles[popped[u]]
        /\ h \in Tasks
        /\ handles[popped[u]] \in Seq(Tasks)
        /\ visited[u] \in Nat
    BY <1>3, NextHandle DEF TypeOK
  <2>2. handles' = handles /\ pc' = pc
    BY <1>3 DEF JoinNext
  <2>3. JoinTimesOut(u, h) \/ JoinSucceeds(u, h)
    BY <1>3 DEF JoinNext, JoinRaises, TypeOK
  <2>4. popped' = popped /\ visited'[u] = visited[u] + 1 /\ cancelled \subseteq cancelled'
    BY <2>2, <2>3 DEF JoinTimesOut, JoinSucceeds, Resolved, TypeOK
  <2>5. pc'[h] = "done" \/ h \in cancelled'
    BY <2>2, <2>3 DEF JoinTimesOut, JoinSucceeds
  <2>6. ResolvedUpTo(popped[u], visited[u])
    BY <2>1, <2>4 DEF JoinedSoFar, TypeOK
  <2>7. \A i \in 1..visited[u] : Resolved(handles[popped[u]][i])'
    BY <2>2, <2>4, <2>6 DEF ResolvedUpTo, Resolved
  <2>8. \A i \in 1..(visited[u] + 1) : i \in 1..visited[u] \/ i = visited[u] + 1
    BY <2>1
  <2>9. \A i \in 1..visited'[u] : Resolved(handles[popped[u]][i])'
    BY <2>2, <2>4, <2>5, <2>7, <2>8 DEF Resolved
  <2>10. visited'[u] \in 0..Len(handles'[popped'[u]])
    <3>1. visited[u] + 1 \in 0..Len(handles[popped[u]])
      BY <2>1
    <3> QED
      BY <2>2, <2>4, <3>1
  <2> QED
    BY <2>9, <2>10 DEF ResolvedUpTo
<1>4. popped'[u] # popped[u] \/ visited'[u] # visited[u] => ExitBlock(u) \/ JoinNext(u)
  <2>1. popped \in [Threads -> {0} \cup DOMAIN handles] /\ visited \in [Threads -> Nat]
    BY DEF TypeOK
  <2>2. ASSUME NEW t \in Threads, ExitBlock(t) PROVE u = t \/ UNCHANGED <<popped[u], visited[u]>>
    BY <2>1, <2>2 DEF ExitBlock
  <2>3. ASSUME NEW t \in Threads, JoinNext(t) PROVE u = t \/ UNCHANGED <<popped[u], visited[u]>>
    BY <2>1, <2>3 DEF JoinNext, JoinTimesOut, JoinSucceeds, JoinRaises
  <2>4. ASSUME NEW t \in Threads, AfterBlock(t) PROVE UNCHANGED <<popped[u], visited[u]>>
    BY <2>1, <2>4 DEF AfterBlock
  <2>5. CASE UNCHANGED <<popped, visited>>
    BY <2>5
  <2> QED
    BY <2>2, <2>3, <2>4, <2>5 DEF Next, vars, threadVars, EnterBlock, StartTask, CancelTask,
       RegisterTask, AddHandle, Finish
<1> QED
  BY <1>1, <1>2, <1>3, <1>4

-----------------------------------------------------------------------------
\* A scope is left by the end of a loop or by an error, and a handle added to it
\* later is late.

SettledAt(s) == \A i \in DOMAIN handles[s] : Resolved(handles[s][i]) \/ handles[s][i] \in late

LEMMA LeftBefore ==
    ASSUME TypeOK, OnePlace, [Next]_vars, NEW s \in DOMAIN handles, HasBeenLeft(s)', ~HasBeenLeft(s)
    PROVE  \E t \in Threads : popped[t] = s /\ (AfterBlock(t) \/ JoinNext(t))
<1>0. /\ scopes \in Seq(DOMAIN handles) /\ s # 0
      /\ popped \in [Threads -> {0} \cup DOMAIN handles]
      /\ \A t \in Threads : pc[t] = "run" => popped[t] = 0
  BY DEF TypeOK
<1>1. ASSUME UNCHANGED <<scopes, popped>> PROVE FALSE
  BY <1>1 DEF HasBeenLeft
<1>2. ASSUME NEW t \in Threads, EnterBlock(t) PROVE FALSE
  <2>1. scopes' = Append(scopes, Len(handles) + 1) /\ popped' = popped
    BY <1>2 DEF EnterBlock, threadVars
  <2>2. /\ DOMAIN scopes = 1..Len(scopes) /\ Len(scopes) \in Nat
        /\ Len(scopes') = Len(scopes) + 1
        /\ \A i \in 1..Len(scopes) : scopes'[i] = scopes[i] /\ i \in 1..Len(scopes')
    BY <1>0, <2>1
  <2> QED
    BY <2>1, <2>2 DEF HasBeenLeft, Contains
<1>3. ASSUME NEW t \in Threads, ExitBlock(t) PROVE FALSE
  <2>1. popped[t] = 0 /\ popped'[t] = IF scopes = <<>> THEN 0 ELSE Last(scopes)
    BY <1>0, <1>3 DEF ExitBlock
  <2>2. \A u \in Threads \ {t} : popped'[u] = popped[u]
    BY <1>0, <1>3 DEF ExitBlock
  <2>3. Contains(scopes, s)
    BY <1>0, <2>1, <2>2 DEF HasBeenLeft
  <2>4. PICK i \in 1..Len(scopes) : scopes[i] = s
    BY <2>3 DEF Contains
  <2>5. scopes # <<>> /\ scopes' = Front(scopes)
    BY <1>0, <1>3, <2>4 DEF ExitBlock
  <2>6. /\ Len(scopes') = Len(scopes) - 1
        /\ \A j \in 1..(Len(scopes) - 1) : scopes'[j] = scopes[j]
        /\ popped'[t] = scopes[Len(scopes)]
    BY <1>0, <2>1, <2>5, FrontType
  <2>7. i # Len(scopes)
    BY <2>4, <2>6 DEF HasBeenLeft
  <2>8. i \in 1..Len(scopes') /\ scopes'[i] = s
    BY <1>0, <2>4, <2>6, <2>7
  <2> QED
    BY <2>8 DEF HasBeenLeft, Contains
<1>4. ASSUME NEW t \in Threads, JoinNext(t) \/ AfterBlock(t) PROVE popped[t] = s
  <2>1. scopes' = scopes /\ (popped' = popped \/ popped' = [popped EXCEPT ![t] = 0])
    BY <1>4 DEF JoinNext, JoinTimesOut, JoinSucceeds, JoinRaises, AfterBlock
  <2> QED
    BY <1>0, <2>1 DEF HasBeenLeft
<1> QED
  BY <1>1, <1>2, <1>3, <1>4 DEF Next, vars, threadVars, StartTask, CancelTask, RegisterTask,
     AddHandle, Finish

LEMMA SettledStays ==
    ASSUME TypeOK, [Next]_vars, NEW s \in DOMAIN handles, HasBeenLeft(s), SettledAt(s)
    PROVE  SettledAt(s)'
<1>0. /\ TypeOK' /\ Grown(s) /\ late \subseteq late'
      /\ \A h \in Tasks : Resolved(h) => Resolved(h)'
  BY TypeStep, HandlesStay, LateStays, ResolvedStays
<1>1. handles[s] \in Seq(Tasks) /\ handles \in Seq(Seq(Tasks))
  BY DEF TypeOK
<1>2. ASSUME NEW i \in DOMAIN handles[s] PROVE (Resolved(handles[s][i]) \/ handles[s][i] \in late)'
  <2>1. handles'[s][i] = handles[s][i] /\ handles[s][i] \in Tasks
    BY <1>0, <1>1 DEF Grown
  <2> QED
    BY <1>0, <2>1 DEF SettledAt, Resolved
<1>3. CASE handles' = handles
  BY <1>2, <1>3 DEF SettledAt
<1>4. ASSUME NEW t \in Threads, EnterBlock(t) PROVE SettledAt(s)'
  <2>1. handles'[s] = handles[s]
    BY <1>1, <1>4 DEF EnterBlock
  <2> QED
    BY <1>2, <2>1 DEF SettledAt
<1>5. ASSUME NEW t \in Threads, AddHandle(t) PROVE SettledAt(s)'
  <2>1. PICK h \in Tasks : /\ target[t] \in DOMAIN handles
                           /\ handles' = [handles EXCEPT ![target[t]] = Append(@, h)]
                           /\ late' = IF HasBeenLeft(target[t]) THEN late \cup {h} ELSE late
    BY <1>5, Added
  <2>2. CASE target[t] # s
    <3>1. handles'[s] = handles[s]
      BY <1>1, <2>1, <2>2
    <3> QED
      BY <1>2, <3>1 DEF SettledAt
  <2>3. CASE target[t] = s
    <3>1. handles'[s] = Append(handles[s], h) /\ h \in late'
      BY <1>1, <2>1, <2>3
    <3>2. \A i \in DOMAIN handles'[s] : i \in DOMAIN handles[s] \/ handles'[s][i] = h
      BY <1>1, <3>1
    <3> QED
      BY <1>2, <3>1, <3>2 DEF SettledAt
  <2> QED
    BY <2>2, <2>3
<1> QED
  BY <1>3, <1>4, <1>5 DEF Next, vars, StartTask, CancelTask, RegisterTask, ExitBlock,
     JoinNext, AfterBlock, Finish

LEMMA SettlesStep == IInv /\ [Next]_vars => RegisteredSettles'
<1> SUFFICES ASSUME IInv, [Next]_vars, NEW s \in DOMAIN handles' \ cut', HasBeenLeft(s)'
             PROVE  SettledAt(s)'
  BY DEF RegisteredSettles, SettledAt
<1>0. TypeOK /\ OnePlace /\ JoinedSoFar /\ RegisteredSettles /\ TypeOK' /\ cut \subseteq cut'
  BY TypeStep, LateStays DEF IInv
<1>1. s \in DOMAIN handles
  <2>1. ASSUME NEW t \in Threads, EnterBlock(t), s \notin DOMAIN handles PROVE FALSE
    <3>1. handles' = Append(handles, <<>>) /\ scopes' = Append(scopes, Len(handles) + 1)
      BY <2>1 DEF EnterBlock
    <3>2. s = Len(handles) + 1
      <4>1. DOMAIN handles' = 1..(Len(handles) + 1) /\ DOMAIN handles = 1..Len(handles) /\ Len(handles) \in Nat
        BY <1>0, <3>1 DEF TypeOK
      <4>2. s \in 1..(Len(handles) + 1) /\ s \notin 1..Len(handles)
        BY <2>1, <4>1
      <4> QED
        BY <4>1, <4>2
    <3>3. scopes \in Seq(DOMAIN handles)
      BY <1>0 DEF TypeOK
    <3>4. Len(scopes') \in 1..Len(scopes') /\ scopes'[Len(scopes')] = s
      BY <3>1, <3>2, <3>3
    <3> QED
      BY <3>4 DEF HasBeenLeft, Contains
  <2>2. ASSUME NEW t \in Threads, AddHandle(t) PROVE DOMAIN handles' = DOMAIN handles
    BY <1>0, <2>2, Added
  <2> QED
    BY <2>1, <2>2 DEF Next, vars, StartTask, CancelTask, RegisterTask, ExitBlock,
       JoinNext, AfterBlock, Finish
<1>2. CASE HasBeenLeft(s)
  <2>1. SettledAt(s)
    BY <1>0, <1>1, <1>2 DEF RegisteredSettles, SettledAt
  <2> QED
    BY <1>0, <1>1, <1>2, <2>1, SettledStays
<1>3. CASE ~HasBeenLeft(s)
  <2>1. PICK t \in Threads : popped[t] = s /\ (AfterBlock(t) \/ JoinNext(t))
    BY <1>0, <1>1, <1>3, LeftBefore
  <2>2. s # 0 /\ popped \in [Threads -> {0} \cup DOMAIN handles] /\ handles[s] \in Seq(Tasks)
    BY <1>0, <1>1 DEF TypeOK
  <2>3. ~JoinNext(t)
    <3>1. popped'[t] = s \/ s \in cut' \/ ~JoinNext(t)
      BY <2>1, <2>2 DEF JoinNext, JoinTimesOut, JoinSucceeds, JoinRaises
    <3> QED
      BY <3>1 DEF HasBeenLeft
  <2>4. ~MoreHandles(t) /\ handles' = handles /\ pc'= [pc EXCEPT ![t] = "run"] /\ pc[t] = "exit"
        /\ cancelled' = cancelled
    BY <2>1, <2>3 DEF AfterBlock, ThreadGoes
  <2>5. ResolvedUpTo(s, visited[t]) /\ visited[t] >= Len(handles[s])
    BY <1>0, <2>1, <2>2, <2>4 DEF JoinedSoFar, MoreHandles, TypeOK
  <2>6. \A i \in DOMAIN handles[s] : Resolved(handles[s][i])
    BY <2>2, <2>5 DEF ResolvedUpTo
  <2>7. \A h \in Tasks : Resolved(h) => Resolved(h)'
    BY <1>0, ResolvedStays
  <2>8. \A i \in DOMAIN handles[s] : Resolved(handles[s][i])'
    BY <2>2, <2>4, <2>6, <2>7 DEF Resolved
  <2> QED
    BY <2>4, <2>8 DEF SettledAt
<1> QED
  BY <1>2, <1>3

-----------------------------------------------------------------------------
\* The invariant is inductive, and holds of every behaviour of TaskScopes.
THEOREM ScopesInvariant == Spec => []IInv
<1>1. Init => IInv
  BY InitType DEF Init, IInv, OnePlace, JoinedSoFar, RegisteredSettles
<1>2. IInv /\ [Next]_vars => IInv'
  BY TypeStep, OnePlaceStep, JoinedStep, SettlesStep DEF IInv
<1> QED
  BY <1>1, <1>2, PTL DEF Spec

\* The variables have their types, and a thread holds a handle or a scope exactly
\* in those steps of _start_task and of the end of a block that use it.
THEOREM ScopesTypeOK == Spec => []TypeOK
<1>1. IInv => TypeOK
  BY DEF IInv
<1> QED
  BY <1>1, ScopesInvariant, PTL

\* Once a scope has been left, by whichever thread, and no error has cut its loop
\* short, its handles have finished or are cancelled, but for those added too late.
THEOREM ScopesRegisteredSettles == Spec => []RegisteredSettles
<1>1. IInv => RegisteredSettles
  BY DEF IInv
<1> QED
  BY <1>1, ScopesInvariant, PTL

-----------------------------------------------------------------------------
\* One thread alone: the list of scopes is the nesting of its blocks, and each
\* scope holds what was spawned in its block.

In(h, s) == \E i \in DOMAIN handles[s] : handles[s][i] = h

\* A handle comes into a scope, or is cancelled by one, after its task has started.
StartedFirst ==
    /\ \A t \in Threads : \A g, h \in starting[t] : g = h /\ pc[h] # "off"
    /\ \A s \in DOMAIN handles : \A h \in Tasks : In(h, s) => pc[h] # "off"
    /\ \A h \in expired \cup outer : pc[h] # "off"

Alone(t) == users \subseteq {t} /\ cut = {}

OthersIdle(t) == \A u \in Threads \ {t} : blocks[u] = <<>> /\ starting[u] = {} /\ pc[u] # "exit"

BlocksMatch(t) ==
    /\ Len(scopes) = Len(blocks[t])
    /\ \A i \in DOMAIN scopes : \A h \in blocks[t][i] :
          In(h, scopes[i]) \/ (h \in starting[t] /\ i = Len(scopes))
    /\ pc[t] = "add" => scopes # <<>> /\ target[t] = Last(scopes)

OuterApart(t) ==
    /\ scopes # <<>> => starting[t] \cap outer = {}
    /\ \A s \in DOMAIN handles : \A h \in outer : ~In(h, s)
    /\ outer \cap expired = {}

LeavingJoined(t) ==
    /\ pc[t] = "exit" => popped[t] # 0 /\ \A h \in leaving[t] : In(h, popped[t])
    /\ late = {}
    /\ BlockContainsTasks

AloneInv == \A t \in Threads :
               Alone(t) => OthersIdle(t) /\ BlocksMatch(t) /\ OuterApart(t) /\ LeavingJoined(t)

LEMMA InStays == ASSUME TypeOK, [Next]_vars, NEW s \in DOMAIN handles, NEW h, In(h, s)
                 PROVE  In(h, s)'
<1>1. Grown(s) /\ TypeOK'
  BY HandlesStay, TypeStep
<1>2. handles[s] \in Seq(Tasks)
  BY DEF TypeOK
<1>3. handles'[s] \in Seq(Tasks)
  BY <1>1 DEF TypeOK, Grown
<1> QED
  BY <1>1, <1>3, <1>2 DEF In, Grown

\* What is new in a scope was put there by a spawner.
LEMMA InBefore ==
    ASSUME TypeOK, [Next]_vars, NEW s \in DOMAIN handles', NEW h, In(h, s)'
    PROVE  \/ s \in DOMAIN handles /\ In(h, s)
           \/ \E t \in Threads : AddHandle(t) /\ s = target[t] /\ h \in starting[t]
<1>0. handles \in Seq(Seq(Tasks))
  BY DEF TypeOK
<1>1. CASE handles' = handles
  BY <1>1 DEF In
<1>2. ASSUME NEW t \in Threads, EnterBlock(t) PROVE s \in DOMAIN handles /\ In(h, s)
  <2>1. handles' = Append(handles, <<>>)
    BY <1>2 DEF EnterBlock
  <2>2. s \in DOMAIN handles \/ handles'[s] = <<>>
    BY <1>0, <2>1
  <2>3. handles'[s] # <<>>
    BY DEF In
  <2> QED
    BY <1>0, <2>1, <2>2, <2>3 DEF In
<1>3. ASSUME NEW t \in Threads, AddHandle(t)
      PROVE  s \in DOMAIN handles /\ (In(h, s) \/ (s = target[t] /\ h \in starting[t]))
  <2>1. PICK g \in starting[t] : /\ target[t] \in DOMAIN handles
                                 /\ handles' = [handles EXCEPT ![target[t]] = Append(@, g)]
                                 /\ DOMAIN handles' = DOMAIN handles
    BY <1>3, Added
  <2>2. handles[target[t]] \in Seq(Tasks)
    BY <1>0, <2>1
  <2>3. CASE s # target[t]
    BY <1>0, <2>1, <2>3 DEF In
  <2>4. CASE s = target[t]
    <3>1. handles'[s] = Append(handles[s], g)
      BY <1>0, <2>1, <2>4
    <3>2. \A i \in DOMAIN handles'[s] : handles'[s][i] = g \/ (i \in DOMAIN handles[s] /\ handles'[s][i] = handles[s][i])
      BY <2>2, <2>4, <3>1
    <3> QED
      BY <2>1, <2>4, <3>2 DEF In
  <2> QED
    BY <2>3, <2>4
<1> QED
  BY <1>1, <1>2, <1>3 DEF Next, vars, StartTask, CancelTask, RegisterTask, ExitBlock,
     JoinNext, AfterBlock, Finish

LEMMA StartedStep == TypeOK /\ StartedFirst /\ [Next]_vars => StartedFirst'
<1> SUFFICES ASSUME TypeOK, StartedFirst, [Next]_vars PROVE StartedFirst'
  OBVIOUS
<1>0. /\ pc \in [Threads -> {"off", "run", "register", "add", "exit", "done"}]
      /\ starting \in [Threads -> SUBSET Tasks] /\ Tasks \subseteq Threads
      /\ expired \cup outer \subseteq Tasks /\ TypeOK'
  BY TypeStep DEF TypeOK, Threads
<1>1. \A h \in Tasks : pc[h] # "off" => pc'[h] # "off"
  BY <1>0 DEF Next, vars, EnterBlock, StartTask, CancelTask, RegisterTask, AddHandle, ExitBlock,
     JoinNext, AfterBlock, Finish, ThreadGoes
<1>2. ASSUME NEW t \in Threads, NEW g \in starting'[t], NEW h \in starting'[t]
      PROVE  g = h /\ pc'[h] # "off"
  <2>1. CASE starting'[t] \subseteq starting[t]
    BY <1>0, <1>1, <2>1 DEF StartedFirst
  <2>2. ASSUME NEW u \in Threads, NEW k \in Tasks, StartTask(u, k) PROVE g = h /\ pc'[h] # "off"
    <3>1. starting' = [starting EXCEPT ![u] = {k}] /\ pc'[k] # "off"
      BY <1>0, <2>2 DEF StartTask
    <3> QED
      BY <1>0, <1>1, <3>1 DEF StartedFirst
  <2> QED
    BY <1>0, <2>1, <2>2 DEF Next, vars, threadVars, EnterBlock, CancelTask, RegisterTask, AddHandle,
       ExitBlock, JoinNext, AfterBlock, Finish
<1>3. ASSUME NEW s \in DOMAIN handles', NEW h \in Tasks, In(h, s)' PROVE pc'[h] # "off"
  BY <1>1, <1>3, InBefore DEF StartedFirst
<1>4. ASSUME NEW h \in expired' PROVE pc'[h] # "off"
  <2>1. CASE h \in expired
    BY <1>0, <1>1, <2>1 DEF StartedFirst
  <2>2. ASSUME NEW t \in Threads, JoinNext(t), h \notin expired PROVE pc'[h] # "off"
    <3>1. h = handles[popped[t]][visited[t] + 1]
      BY <2>2 DEF JoinNext, JoinTimesOut, JoinSucceeds, JoinRaises
    <3> QED
      BY <1>1, <2>2, <3>1, NextHandle DEF StartedFirst, In
  <2> QED
    BY <2>1, <2>2 DEF Next, vars, history, EnterBlock, StartTask, CancelTask, RegisterTask, AddHandle,
       ExitBlock, AfterBlock, Finish
<1>5. ASSUME NEW h \in outer' PROVE pc'[h] # "off"
  <2>1. CASE h \in outer
    BY <1>0, <1>1, <2>1 DEF StartedFirst
  <2>2. ASSUME NEW t \in Threads, NEW k \in Tasks, StartTask(t, k), h \notin outer PROVE pc'[h] # "off"
    BY <1>0, <2>2 DEF StartTask
  <2> QED
    BY <2>1, <2>2 DEF Next, vars, history, EnterBlock, CancelTask, RegisterTask, AddHandle,
       ExitBlock, JoinNext, AfterBlock, Finish
<1> QED
  BY <1>2, <1>3, <1>4, <1>5 DEF StartedFirst


AloneAt(t) == OthersIdle(t) /\ BlocksMatch(t) /\ OuterApart(t) /\ LeavingJoined(t)

\* Only the one thread opens blocks and spawns.
LEMMA OthersDoNot ==
    ASSUME TypeOK, NEW t \in Threads, OthersIdle(t), Alone(t)', NEW u \in Threads \ {t}
    PROVE  /\ ~EnterBlock(u) /\ ~RegisterTask(u) /\ ~AddHandle(u) /\ ~ExitBlock(u)
           /\ ~JoinNext(u) /\ ~AfterBlock(u) /\ \A h \in Tasks : ~StartTask(u, h)
<1>1. ~EnterBlock(u) /\ \A h \in Tasks : ~StartTask(u, h)
  BY DEF EnterBlock, StartTask, Alone
<1>2. ~RegisterTask(u) /\ ~AddHandle(u)
  BY DEF RegisterTask, AddHandle, OthersIdle, TypeOK
<1>3. ~ExitBlock(u) /\ ~JoinNext(u) /\ ~AfterBlock(u)
  BY DEF ExitBlock, JoinNext, AfterBlock, OthersIdle
<1> QED
  BY <1>1, <1>2, <1>3

LEMMA AloneBefore == [Next]_vars => \A t \in Threads : Alone(t)' => Alone(t)
<1>1. [Next]_vars => users \subseteq users'
  BY DEF Next, vars, history, EnterBlock, StartTask, CancelTask, RegisterTask, AddHandle, ExitBlock,
     JoinNext, AfterBlock, Finish
<1> QED
  BY <1>1, LateStays DEF Alone

\* What has resolved, and what is in a scope, stays so; so only what is new counts.
LEMMA ContainedStays ==
    ASSUME TypeOK, [Next]_vars, BlockContainsTasks PROVE \A h \in left : Resolved(h)'
  BY ResolvedStays DEF BlockContainsTasks, TypeOK

\* No scope takes a handle and no block is entered or left.
LEMMA AloneKept ==
    ASSUME TypeOK, [Next]_vars, NEW t \in Threads, AloneAt(t),
           UNCHANGED <<handles, scopes, starting, target, popped, blocks, leaving, left, outer, late, expired>>,
           \A u \in Threads : pc'[u] \in {"add", "exit"} => pc'[u] = pc[u]
    PROVE  AloneAt(t)'
<1>1. \A h \in left : Resolved(h)'
  BY ContainedStays DEF AloneAt, LeavingJoined
<1>2. \A s \in DOMAIN handles, h \in Tasks \cup outer : In(h, s)' <=> In(h, s)
  BY DEF In
<1>3. OthersIdle(t)'
  BY DEF AloneAt, OthersIdle
<1>4. BlocksMatch(t)'
  BY DEF AloneAt, BlocksMatch, In
<1>5. OuterApart(t)'
  BY DEF AloneAt, OuterApart, In
<1>6. LeavingJoined(t)'
  BY <1>1 DEF AloneAt, LeavingJoined, BlockContainsTasks, In
<1> QED
  BY <1>3, <1>4, <1>5, <1>6 DEF AloneAt

LEMMA AloneEnter ==
    ASSUME TypeOK, [Next]_vars, NEW t \in Threads, AloneAt(t), EnterBlock(t) PROVE AloneAt(t)'
<1>0. /\ scopes \in Seq(DOMAIN handles) /\ blocks \in [Threads -> Seq(SUBSET Tasks)]
      /\ handles \in Seq(Seq(Tasks)) /\ pc[t] = "run" /\ starting[t] = {} /\ pc' = pc
      /\ blocks' = [blocks EXCEPT ![t] = Append(@, {})] /\ scopes' = Append(scopes, Len(handles) + 1)
      /\ handles' = Append(handles, <<>>)
      /\ UNCHANGED <<starting, target, popped, leaving, left, outer, late, expired>>
  BY DEF EnterBlock, AtStatement, TypeOK, threadVars
<1>1. \A h \in left : Resolved(h)'
  BY ContainedStays DEF AloneAt, LeavingJoined
<1>2. \A s \in DOMAIN handles : \A h : In(h, s) => In(h, s)'
  BY InStays
<1>3. \A s \in DOMAIN handles' : \A h : In(h, s)' => s \in DOMAIN handles /\ In(h, s)
  <2>1. \A u \in Threads : ~AddHandle(u)
    BY <1>0 DEF AddHandle, TypeOK
  <2> QED
    BY <2>1, InBefore
<1>4. OthersIdle(t)'
  BY <1>0 DEF AloneAt, OthersIdle
<1>5. BlocksMatch(t)'
  <2>1. /\ Len(scopes') = Len(scopes) + 1 /\ Len(blocks'[t]) = Len(blocks[t]) + 1
        /\ DOMAIN scopes' = 1..(Len(scopes) + 1) /\ DOMAIN scopes = 1..Len(scopes)
        /\ Len(scopes) \in Nat /\ Len(blocks[t]) = Len(scopes)
    BY <1>0 DEF AloneAt, BlocksMatch
  <2>2. ASSUME NEW i \in 1..Len(scopes), NEW h \in blocks'[t][i] PROVE In(h, scopes[i])'
    <3>1. scopes'[i] = scopes[i] /\ blocks'[t][i] = blocks[t][i] /\ scopes[i] \in DOMAIN handles
      BY <1>0, <2>1
    <3>2. In(h, scopes[i])
      BY <1>0, <2>1, <2>2, <3>1 DEF AloneAt, BlocksMatch
    <3> QED
      BY <1>2, <3>1, <3>2 DEF In
  <2>3. blocks'[t][Len(scopes) + 1] = {}
    BY <1>0, <2>1
  <2>4. \A i \in DOMAIN scopes' : \A h \in blocks'[t][i] : In(h, scopes[i])'
    BY <2>1, <2>2, <2>3
  <2> QED
    BY <1>0, <2>1, <2>4 DEF BlocksMatch
<1>6. OuterApart(t)'
  BY <1>0, <1>3 DEF AloneAt, OuterApart
<1>7. LeavingJoined(t)'
  BY <1>0, <1>1 DEF AloneAt, LeavingJoined, BlockContainsTasks
<1> QED
  BY <1>4, <1>5, <1>6, <1>7 DEF AloneAt

LEMMA AloneStart ==
    ASSUME TypeOK, StartedFirst, [Next]_vars, NEW t \in Threads, AloneAt(t),
           NEW k \in Tasks, StartTask(t, k)
    PROVE  AloneAt(t)'
<1>0. /\ scopes \in Seq(DOMAIN handles) /\ blocks \in [Threads -> Seq(SUBSET Tasks)]
      /\ starting \in [Threads -> SUBSET Tasks] /\ pc \in [Threads -> {"off", "run", "register", "add", "exit", "done"}]
      /\ pc[t] = "run" /\ starting[t] = {} /\ pc[k] = "off" /\ k \in Threads /\ t # k
      /\ pc' = [pc EXCEPT ![k] = "run", ![t] = "register"]
      /\ starting' = [starting EXCEPT ![t] = {k}]
      /\ UNCHANGED <<handles, scopes, target, popped, leaving, left, late, expired>>
  BY DEF StartTask, AtStatement, TypeOK, Threads
<1>1. \A h \in left : Resolved(h)'
  BY ContainedStays DEF AloneAt, LeavingJoined
<1>2. \A u \in Threads \ {t} : blocks'[u] = blocks[u]
  BY <1>0 DEF StartTask
<1>3. OthersIdle(t)'
  BY <1>0, <1>2 DEF AloneAt, OthersIdle
<1>4. BlocksMatch(t)'
  <2>1. /\ Len(scopes) = Len(blocks[t]) /\ DOMAIN scopes = 1..Len(scopes)
        /\ blocks[t] \in Seq(SUBSET Tasks)
    BY <1>0 DEF AloneAt, BlocksMatch
  <2>2. CASE blocks[t] = <<>>
    BY <1>0, <2>1, <2>2 DEF StartTask, BlocksMatch
  <2>3. CASE blocks[t] # <<>>
    <3> DEFINE n == Len(blocks[t])
    <3>1. n \in DOMAIN blocks[t] /\ DOMAIN blocks[t] = 1..n
      BY <2>1, <2>3, FrontType
    <3>2. blocks'[t] = [blocks[t] EXCEPT ![n] = @ \cup {k}]
      BY <1>0, <2>3 DEF StartTask
    <3>3. Len(blocks'[t]) = n
      BY <2>1, <3>1, <3>2
    <3>4. \A i \in DOMAIN scopes : \A h \in blocks'[t][i] : h \in blocks[t][i] \/ (h = k /\ i = n)
      BY <2>1, <3>1, <3>2
    <3>5. \A i \in DOMAIN scopes : \A h \in blocks[t][i] : In(h, scopes[i])
      BY <1>0 DEF AloneAt, BlocksMatch
    <3> HIDE DEF n
    <3>6. \A i \in DOMAIN scopes' : \A h \in blocks'[t][i] :
             In(h, scopes[i])' \/ (h \in starting'[t] /\ i = Len(scopes'))
      <4>1. scopes' = scopes /\ handles' = handles /\ starting'[t] = {k} /\ n = Len(scopes)
        BY <1>0, <2>1 DEF n
      <4> QED
        BY <3>4, <3>5, <4>1 DEF In
    <3> QED
      BY <1>0, <2>1, <3>3, <3>6 DEF BlocksMatch, n
  <2> QED
    BY <2>2, <2>3
<1>5. OuterApart(t)'
  <2>1. /\ scopes # <<>> => blocks[t] # <<>>
        /\ outer' = outer \/ (blocks[t] = <<>> /\ outer' = outer \cup {k})
    BY <1>0 DEF AloneAt, BlocksMatch, StartTask
  <2>2. k \notin expired /\ \A s \in DOMAIN handles : ~In(k, s)
    BY <1>0 DEF StartedFirst
  <2>3. outer' \cap expired = {} /\ \A s \in DOMAIN handles : \A h \in outer' : ~In(h, s)
    BY <2>1, <2>2 DEF AloneAt, OuterApart
  <2>4. scopes # <<>> => outer' = outer /\ k \notin outer
    <3>1. k \notin outer
      BY <1>0 DEF StartedFirst
    <3> QED
      BY <2>1, <3>1
  <2> QED
    BY <1>0, <2>3, <2>4 DEF OuterApart, In
<1>6. LeavingJoined(t)'
  BY <1>0, <1>1 DEF AloneAt, LeavingJoined, BlockContainsTasks
<1> QED
  BY <1>3, <1>4, <1>5, <1>6 DEF AloneAt

LEMMA AloneRegister ==
    ASSUME TypeOK, [Next]_vars, NEW t \in Threads, AloneAt(t), RegisterTask(t) PROVE AloneAt(t)'
<1>0. /\ scopes \in Seq(DOMAIN handles) /\ target \in [Threads -> {0} \cup DOMAIN handles]
      /\ starting \in [Threads -> SUBSET Tasks] /\ pc \in [Threads -> {"off", "run", "register", "add", "exit", "done"}]
      /\ UNCHANGED <<handles, scopes, popped, blocks, leaving, left, outer, late, expired>>
  BY DEF RegisterTask, TypeOK, history
<1>1. \A h \in left : Resolved(h)'
  BY ContainedStays DEF AloneAt, LeavingJoined
<1>2. \/ /\ scopes # <<>> /\ starting' = starting /\ pc' = [pc EXCEPT ![t] = "add"]
         /\ target' = [target EXCEPT ![t] = Last(scopes)]
      \/ /\ scopes = <<>> /\ starting' = [starting EXCEPT ![t] = {}] /\ pc' = [pc EXCEPT ![t] = "run"]
         /\ target' = target
  BY DEF RegisterTask, ThreadGoes
<1>3. OthersIdle(t)'
  BY <1>0, <1>2 DEF AloneAt, OthersIdle
<1>4. BlocksMatch(t)'
  BY <1>0, <1>2 DEF AloneAt, BlocksMatch, In
<1>5. OuterApart(t)'
  BY <1>0, <1>2 DEF AloneAt, OuterApart, In
<1>6. LeavingJoined(t)'
  BY <1>0, <1>1, <1>2 DEF AloneAt, LeavingJoined, BlockContainsTasks
<1> QED
  BY <1>3, <1>4, <1>5, <1>6 DEF AloneAt

LEMMA AloneAdd ==
    ASSUME TypeOK, StartedFirst, [Next]_vars, NEW t \in Threads, AloneAt(t), AddHandle(t)
    PROVE  AloneAt(t)'
<1>0. /\ scopes \in Seq(DOMAIN handles) /\ handles \in Seq(Seq(Tasks))
      /\ starting \in [Threads -> SUBSET Tasks] /\ pc \in [Threads -> {"off", "run", "register", "add", "exit", "done"}]
      /\ UNCHANGED <<scopes, popped, blocks, leaving, left, outer, expired>>
      /\ pc[t] = "add" /\ pc' = [pc EXCEPT ![t] = "run"]
      /\ starting' = [starting EXCEPT ![t] = {}]
  BY DEF AddHandle, TypeOK, ThreadGoes
<1>1. \A h \in left : Resolved(h)'
  BY ContainedStays DEF AloneAt, LeavingJoined
<1>2. \A s \in DOMAIN handles : \A h : In(h, s) => In(h, s)'
  BY InStays
<1>3. PICK k \in starting[t] : /\ target[t] \in DOMAIN handles
                               /\ handles' = [handles EXCEPT ![target[t]] = Append(@, k)]
                               /\ late' = IF HasBeenLeft(target[t]) THEN late \cup {k} ELSE late
                               /\ DOMAIN handles' = DOMAIN handles
  BY Added
<1>4. starting[t] = {k} /\ k \in Tasks
  BY <1>0 DEF StartedFirst
<1>5. scopes # <<>> /\ target[t] = Last(scopes) /\ k \notin outer
  BY <1>0, <1>4 DEF AloneAt, BlocksMatch, OuterApart
<1>6. Last(scopes) = scopes[Len(scopes)] /\ Len(scopes) \in DOMAIN scopes /\ DOMAIN scopes = 1..Len(scopes)
  <2>1. \A S : \A s \in Seq(S) : s # <<>> => Last(s) = s[Len(s)] /\ Len(s) \in DOMAIN s
    BY FrontType
  <2> QED
    BY <1>0, <1>5, <2>1
<1>7. late' = late
  BY <1>3, <1>5, <1>6 DEF HasBeenLeft, Contains
<1>8. \E j \in DOMAIN handles'[target[t]] : handles'[target[t]][j] = k
  <2>1. handles'[target[t]] = Append(handles[target[t]], k) /\ handles[target[t]] \in Seq(Tasks)
    BY <1>0, <1>3
  <2>2. Len(handles'[target[t]]) \in DOMAIN handles'[target[t]]
    BY <1>4, <2>1
  <2> QED
    BY <1>4, <2>1, <2>2
<1>9. OthersIdle(t)'
  BY <1>0 DEF AloneAt, OthersIdle
<1>10. BlocksMatch(t)'
  <2>1. ASSUME NEW i \in DOMAIN scopes, NEW h \in blocks[t][i] PROVE In(h, scopes[i])'
    <3>1. In(h, scopes[i]) \/ (h = k /\ i = Len(scopes))
      BY <1>4 DEF AloneAt, BlocksMatch
    <3>2. scopes[i] \in DOMAIN handles /\ scopes'[i] = scopes[i]
      BY <1>0
    <3>3. CASE In(h, scopes[i])
      BY <1>2, <3>2, <3>3 DEF In
    <3>4. CASE h = k /\ i = Len(scopes)
      BY <1>5, <1>6, <1>8, <3>2, <3>4 DEF In
    <3> QED
      BY <3>1, <3>3, <3>4
  <2> QED
    BY <1>0, <2>1 DEF AloneAt, BlocksMatch
<1>11. OuterApart(t)'
  <2>1. ASSUME NEW s \in DOMAIN handles', NEW h \in outer, In(h, s)' PROVE FALSE
    <3>1. ~In(h, s)
      BY <1>3 DEF AloneAt, OuterApart
    <3>2. PICK u \in Threads : AddHandle(u) /\ h \in starting[u]
      BY <2>1, <3>1, InBefore
    <3>3. u = t
      BY <1>0, <3>2 DEF AloneAt, OthersIdle
    <3> QED
      BY <1>4, <1>5, <3>2, <3>3
  <2> QED
    BY <1>0, <2>1 DEF AloneAt, OuterApart
<1>12. LeavingJoined(t)'
  BY <1>0, <1>1, <1>7 DEF AloneAt, LeavingJoined, BlockContainsTasks
<1> QED
  BY <1>9, <1>10, <1>11, <1>12 DEF AloneAt

LEMMA AloneExit ==
    ASSUME TypeOK, [Next]_vars, NEW t \in Threads, AloneAt(t), ExitBlock(t) PROVE AloneAt(t)'
<1>0. /\ scopes \in Seq(DOMAIN handles) /\ blocks \in [Threads -> Seq(SUBSET Tasks)]
      /\ blocks[t] \in Seq(SUBSET Tasks) /\ blocks[t] # <<>>
      /\ popped \in [Threads -> {0} \cup DOMAIN handles] /\ leaving \in [Threads -> SUBSET Tasks]
      /\ pc \in [Threads -> {"off", "run", "register", "add", "exit", "done"}]
      /\ pc[t] = "run" /\ starting[t] = {}
      /\ pc' = [pc EXCEPT ![t] = "exit"]
      /\ blocks' = [blocks EXCEPT ![t] = Front(@)]
      /\ leaving' = [leaving EXCEPT ![t] = Last(blocks[t])]
      /\ UNCHANGED <<handles, starting, target, left, outer, late, expired>>
  BY DEF ExitBlock, TypeOK, ThreadGoes
<1>1. \A h \in left : Resolved(h)'
  BY ContainedStays DEF AloneAt, LeavingJoined
<1>2. Len(scopes) = Len(blocks[t])
  BY DEF AloneAt, BlocksMatch
<1>3. scopes # <<>>
  BY <1>0, <1>2
<1>4. scopes' = Front(scopes) /\ popped' = [popped EXCEPT ![t] = Last(scopes)]
  BY <1>3 DEF ExitBlock
<1>5. \A S : \A s \in Seq(S) : s # <<>> =>
         /\ Last(s) = s[Len(s)] /\ Len(s) \in DOMAIN s
         /\ Len(Front(s)) = Len(s) - 1 /\ DOMAIN Front(s) = 1..(Len(s) - 1)
         /\ \A i \in 1..(Len(s) - 1) : Front(s)[i] = s[i]
  BY FrontType
<1>6. /\ Last(scopes) = scopes[Len(scopes)] /\ Len(scopes) \in DOMAIN scopes
      /\ Len(scopes') = Len(scopes) - 1 /\ DOMAIN scopes' = 1..(Len(scopes) - 1)
      /\ \A i \in 1..(Len(scopes) - 1) : scopes'[i] = scopes[i]
  BY <1>0, <1>3, <1>4, <1>5
<1>7. /\ Last(blocks[t]) = blocks[t][Len(scopes)]
      /\ Len(blocks'[t]) = Len(scopes) - 1
      /\ \A i \in 1..(Len(scopes) - 1) : blocks'[t][i] = blocks[t][i]
  BY <1>0, <1>2, <1>5
<1>8. \A i \in DOMAIN scopes : \A h \in blocks[t][i] : In(h, scopes[i])
  BY <1>0 DEF AloneAt, BlocksMatch
<1>9. \A i \in 1..(Len(scopes) - 1) : i \in DOMAIN scopes
  <2>1. \A n \in Nat : \A i \in 1..(n - 1) : i \in 1..n
    OBVIOUS
  <2>2. Len(scopes) \in Nat /\ DOMAIN scopes = 1..Len(scopes)
    BY <1>0
  <2> QED
    BY <2>1, <2>2
<1>10. OthersIdle(t)'
  BY <1>0 DEF AloneAt, OthersIdle
<1>11. BlocksMatch(t)'
  <2>1. \A i \in DOMAIN scopes' : \A h \in blocks'[t][i] : In(h, scopes'[i])
    BY <1>6, <1>7, <1>8, <1>9
  <2>2. pc'[t] # "add"
    BY <1>0
  <2>3. Len(scopes') = Len(blocks'[t])
    BY <1>6, <1>7
  <2>4. \A i \in DOMAIN scopes' : \A h \in blocks'[t][i] : In(h, scopes[i])'
    <3>1. handles' = handles
      BY <1>0
    <3> QED
      BY <2>1, <3>1 DEF In
  <2> QED
    BY <2>2, <2>3, <2>4 DEF BlocksMatch
<1>12. OuterApart(t)'
  BY <1>0 DEF AloneAt, OuterApart, In
<1>13. LeavingJoined(t)'
  <2>1. popped'[t] = scopes[Len(scopes)] /\ leaving'[t] = blocks[t][Len(scopes)]
    BY <1>0, <1>4, <1>6, <1>7
  <2>2. \A h \in leaving'[t] : In(h, popped'[t])
    BY <1>6, <1>8, <2>1
  <2>3. popped'[t] # 0
    <3>1. scopes[Len(scopes)] \in DOMAIN handles /\ 0 \notin DOMAIN handles
      BY <1>0, <1>6 DEF TypeOK
    <3> QED
      BY <2>1, <3>1
  <2> QED
    BY <1>0, <1>1, <2>2, <2>3 DEF AloneAt, LeavingJoined, BlockContainsTasks, In
<1> QED
  BY <1>10, <1>11, <1>12, <1>13 DEF AloneAt

LEMMA AloneJoin ==
    ASSUME TypeOK, [Next]_vars, NEW t \in Threads, AloneAt(t), Alone(t)', JoinNext(t)
    PROVE  AloneAt(t)'
<1>0. UNCHANGED <<handles, scopes, pc, starting, target, blocks, leaving, left, outer, late>>
  BY DEF JoinNext
<1>1. \A h \in left : Resolved(h)'
  BY ContainedStays DEF AloneAt, LeavingJoined
<1>2. popped' = popped
  BY DEF JoinNext, JoinTimesOut, JoinSucceeds, JoinRaises, Alone
<1>3. ASSUME NEW h \in expired' PROVE h \notin outer
  <2>1. h \in expired \/ h = handles[popped[t]][visited[t] + 1]
    BY DEF JoinNext, JoinTimesOut, JoinSucceeds, JoinRaises
  <2> QED
    BY <2>1, NextHandle DEF AloneAt, OuterApart, In
<1>4. OthersIdle(t)'
  BY <1>0 DEF AloneAt, OthersIdle
<1>5. BlocksMatch(t)'
  BY <1>0 DEF AloneAt, BlocksMatch, In
<1>6. OuterApart(t)'
  BY <1>0, <1>3 DEF AloneAt, OuterApart, In
<1>7. LeavingJoined(t)'
  BY <1>0, <1>1, <1>2 DEF AloneAt, LeavingJoined, BlockContainsTasks, In
<1> QED
  BY <1>4, <1>5, <1>6, <1>7 DEF AloneAt

LEMMA AloneAfter ==
    ASSUME TypeOK, JoinedSoFar, [Next]_vars, NEW t \in Threads, AloneAt(t), AfterBlock(t)
    PROVE  AloneAt(t)'
<1>0. /\ UNCHANGED <<handles, scopes, starting, target, blocks, outer, late, expired, cancelled>>
      /\ pc \in [Threads -> {"off", "run", "register", "add", "exit", "done"}]
      /\ pc[t] = "exit" /\ pc' = [pc EXCEPT ![t] = "run"]
      /\ popped \in [Threads -> {0} \cup DOMAIN handles] /\ left' = left \cup leaving[t]
      /\ visited[t] \in Nat /\ ~MoreHandles(t) /\ leaving[t] \subseteq Tasks
  BY DEF AfterBlock, TypeOK, ThreadGoes
<1>1. \A h \in left : Resolved(h)'
  BY ContainedStays DEF AloneAt, LeavingJoined
<1>2. popped[t] # 0 /\ popped[t] \in DOMAIN handles /\ \A h \in leaving[t] : In(h, popped[t])
  BY <1>0 DEF AloneAt, LeavingJoined
<1>3. ResolvedUpTo(popped[t], visited[t]) /\ handles[popped[t]] \in Seq(Tasks)
  BY <1>2 DEF JoinedSoFar, TypeOK
<1>4. visited[t] = Len(handles[popped[t]])
  BY <1>0, <1>2, <1>3 DEF MoreHandles, ResolvedUpTo
<1>5. \A h \in leaving[t] : Resolved(h)
  BY <1>2, <1>3, <1>4 DEF In, ResolvedUpTo
<1>6. \A h \in left' : Resolved(h)'
  BY <1>0, <1>1, <1>5, ResolvedStays
<1>7. OthersIdle(t)'
  BY <1>0 DEF AloneAt, OthersIdle
<1>8. BlocksMatch(t)'
  BY <1>0 DEF AloneAt, BlocksMatch, In
<1>9. OuterApart(t)'
  BY <1>0 DEF AloneAt, OuterApart, In
<1>10. LeavingJoined(t)'
  BY <1>0, <1>6 DEF AloneAt, LeavingJoined, BlockContainsTasks
<1> QED
  BY <1>7, <1>8, <1>9, <1>10 DEF AloneAt

LEMMA AloneStep == IInv /\ StartedFirst /\ AloneInv /\ [Next]_vars => AloneInv'
<1> SUFFICES ASSUME IInv, StartedFirst, AloneInv, [Next]_vars, NEW t \in Threads, Alone(t)'
             PROVE  AloneAt(t)'
  BY DEF AloneInv, AloneAt
<1>0. TypeOK /\ JoinedSoFar /\ AloneAt(t) /\ OthersIdle(t)
  BY AloneBefore DEF IInv, AloneInv, AloneAt
<1>1. ASSUME NEW u \in Threads, NEW h \in Tasks, CancelTask(u, h) PROVE AloneAt(t)'
  BY <1>0, <1>1, AloneKept DEF CancelTask, threadVars, history
<1>2. ASSUME NEW u \in Threads, Finish(u) PROVE AloneAt(t)'
  <2>1. \A v \in Threads : pc'[v] \in {"add", "exit"} => pc'[v] = pc[v]
    BY <1>0, <1>2 DEF Finish, ThreadGoes, TypeOK
  <2> QED
    BY <1>0, <1>2, <2>1, AloneKept DEF Finish, threadVars, history
<1>3. CASE UNCHANGED vars
  BY <1>0, <1>3, AloneKept DEF vars, threadVars, history
<1> QED
  BY <1>0, <1>1, <1>2, <1>3, OthersDoNot, AloneEnter, AloneStart, AloneRegister, AloneAdd,
     AloneExit, AloneJoin, AloneAfter DEF Next

\* As long as one thread alone opens blocks and spawns, and no join has raised, a
\* block contains the tasks spawned in it, cancels no other, and all resolve.
THEOREM ScopesAloneKeepsPromises == Spec => []AloneKeepsPromises
<1> DEFINE Inv == IInv /\ StartedFirst /\ AloneInv
<1>1. Init => StartedFirst /\ AloneInv
  BY DEF Init, StartedFirst, AloneInv, OthersIdle, BlocksMatch, OuterApart, LeavingJoined,
     BlockContainsTasks, In
<1>2. IInv /\ StartedFirst /\ AloneInv /\ [Next]_vars => (StartedFirst /\ AloneInv)'
  BY StartedStep, AloneStep DEF IInv
<1>3. IInv /\ AloneInv => AloneKeepsPromises
  <2> SUFFICES ASSUME IInv, AloneInv, NEW t \in Threads, users \subseteq {t}, cut = {}
               PROVE  BlockContainsTasks /\ OuterTasksSurvive /\ HandlesResolve
    BY DEF AloneKeepsPromises
  <2>1. OuterApart(t) /\ LeavingJoined(t)
    BY DEF AloneInv, Alone
  <2> QED
    BY <2>1 DEF IInv, OuterApart, LeavingJoined, OuterTasksSurvive, HandlesResolve, RegisteredSettles
<1> QED
  BY <1>1, <1>2, <1>3, ScopesInvariant, PTL DEF Spec

-----------------------------------------------------------------------------
\* The balance of scopes and open blocks.  Which thread pushed a scope does not
\* matter: a block that opens adds one to both sides, a block that ends takes one
\* from both, and finds a scope to take, because the count of the open blocks,
\* its own among them, is not zero.

Balance == IsFiniteSet(OpenBlocks) /\ ScopeBalance

\* Steps that keep the nesting of the blocks keep the set of the open ones.
LEMMA BalanceKept ==
    ASSUME Balance, UNCHANGED scopes, \A t \in Threads : DOMAIN blocks'[t] = DOMAIN blocks[t]
    PROVE  Balance'
<1>1. OpenBlocks' = OpenBlocks
  BY DEF OpenBlocks
<1> QED
  BY <1>1 DEF Balance, ScopeBalance

LEMMA BalanceEnter == ASSUME TypeOK, Balance, NEW t \in Threads, EnterBlock(t) PROVE Balance'
<1> DEFINE n == Len(blocks[t])
<1>1. /\ blocks \in [Threads -> Seq(SUBSET Tasks)] /\ blocks[t] \in Seq(SUBSET Tasks)
      /\ n \in Nat /\ DOMAIN blocks[t] = 1..n
  BY DEF TypeOK
<1>2. /\ blocks' = [blocks EXCEPT ![t] = Append(blocks[t], {})]
      /\ Len(scopes') = Len(scopes) + 1 /\ Len(scopes) \in Nat
  BY DEF TypeOK, EnterBlock
<1>3. DOMAIN blocks'[t] = 1..(n + 1) /\ \A u \in Threads \ {t} : blocks'[u] = blocks[u]
  BY <1>1, <1>2
<1> HIDE DEF n
<1>4. 1..(n + 1) = 1..n \cup {n + 1} /\ n + 1 \notin 1..n
  BY <1>1
<1>5. OpenBlocks' = OpenBlocks \cup {<<t, n + 1>>} /\ <<t, n + 1>> \notin OpenBlocks
  BY <1>1, <1>3, <1>4 DEF OpenBlocks
<1>6. IsFiniteSet(OpenBlocks') /\ Cardinality(OpenBlocks') = Cardinality(OpenBlocks) + 1
  BY <1>5, FS_AddElement DEF Balance
<1> QED
  BY <1>2, <1>6 DEF Balance, ScopeBalance

LEMMA BalanceStart ==
    ASSUME TypeOK, Balance, NEW t \in Threads, NEW h \in Tasks, StartTask(t, h) PROVE Balance'
<1>1. \/ blocks' = blocks
      \/ blocks' = [blocks EXCEPT ![t] = [blocks[t] EXCEPT ![Len(blocks[t])] = @ \cup {h}]]
  BY DEF StartTask
<1>2. \A b, k, e : DOMAIN [b EXCEPT ![k] = e] = DOMAIN b
  OBVIOUS
<1>3. blocks \in [Threads -> Seq(SUBSET Tasks)]
  BY DEF TypeOK
<1>4. ASSUME NEW u \in Threads PROVE DOMAIN blocks'[u] = DOMAIN blocks[u]
  <2>1. blocks'[u] = blocks[u] \/ (u = t /\ blocks'[u] = [blocks[u] EXCEPT ![Len(blocks[u])] = @ \cup {h}])
    BY <1>1, <1>3
  <2> QED
    BY <1>2, <2>1
<1> QED
  BY <1>4, BalanceKept DEF StartTask

LEMMA BalanceExit == ASSUME TypeOK, Balance, NEW t \in Threads, ExitBlock(t) PROVE Balance'
<1> DEFINE n == Len(blocks[t])
<1>1. /\ blocks \in [Threads -> Seq(SUBSET Tasks)] /\ blocks[t] \in Seq(SUBSET Tasks)
      /\ blocks[t] # <<>> /\ scopes \in Seq(DOMAIN handles)
      /\ blocks' = [blocks EXCEPT ![t] = Front(blocks[t])]
  BY DEF TypeOK, ExitBlock
<1>2. /\ n \in DOMAIN blocks[t] /\ DOMAIN blocks[t] = 1..n /\ n \in Nat
      /\ DOMAIN blocks'[t] = 1..(n - 1) /\ \A u \in Threads \ {t} : blocks'[u] = blocks[u]
  <2>1. \A S : \A s \in Seq(S) : s # <<>> =>
           DOMAIN Front(s) = 1..(Len(s) - 1) /\ Len(s) \in DOMAIN s
    BY FrontType
  <2>2. DOMAIN Front(blocks[t]) = 1..(n - 1) /\ n \in DOMAIN blocks[t]
    BY <1>1, <2>1
  <2>3. DOMAIN blocks[t] = 1..n /\ n \in Nat
    BY <1>1
  <2>4. blocks'[t] = Front(blocks[t]) /\ \A u \in Threads \ {t} : blocks'[u] = blocks[u]
    BY <1>1
  <2> HIDE DEF n
  <2> QED
    BY <2>2, <2>3, <2>4
<1> HIDE DEF n
<1>3. 1..(n - 1) = 1..n \ {n}
  BY <1>2
<1>4. OpenBlocks' = OpenBlocks \ {<<t, n>>} /\ <<t, n>> \in OpenBlocks
  BY <1>2, <1>3 DEF OpenBlocks
<1>5. /\ IsFiniteSet(OpenBlocks') /\ Cardinality(OpenBlocks') = Cardinality(OpenBlocks) - 1
      /\ Cardinality(OpenBlocks) # 0
  BY <1>4, FS_RemoveElement, FS_EmptySet DEF Balance
<1>6. scopes # <<>>
  BY <1>5 DEF Balance, ScopeBalance
<1>7. Len(scopes') = Len(scopes) - 1
  BY <1>1, <1>6, FrontType DEF ExitBlock
<1> QED
  BY <1>5, <1>7 DEF Balance, ScopeBalance

LEMMA BalanceStep == TypeOK /\ Balance /\ [Next]_vars => Balance'
<1> SUFFICES ASSUME TypeOK, Balance, [Next]_vars PROVE Balance'
  OBVIOUS
<1>1. ASSUME NEW t \in Threads, RegisterTask(t) \/ AddHandle(t) \/ JoinNext(t) \/ AfterBlock(t)
                                \/ Finish(t) \/ \E h \in Tasks : CancelTask(t, h)
      PROVE  UNCHANGED <<scopes, blocks>>
  BY <1>1 DEF RegisterTask, AddHandle, JoinNext, AfterBlock, Finish, CancelTask, history
<1>2. UNCHANGED vars => UNCHANGED <<scopes, blocks>>
  BY DEF vars, history
<1>3. UNCHANGED <<scopes, blocks>> => Balance'
  BY BalanceKept
<1> QED
  BY <1>1, <1>2, <1>3, BalanceEnter, BalanceStart, BalanceExit DEF Next

\* Whichever threads pushed and popped them, there are as many scopes on the list
\* as blocks open: no thread ends its block with the list empty, and no scope
\* stays behind when all blocks have ended.
THEOREM ScopesBalance == Spec => []ScopeBalance
<1>1. Init => Balance
  <2> SUFFICES ASSUME Init PROVE Balance
    OBVIOUS
  <2>1. OpenBlocks = {} /\ scopes = <<>>
    BY DEF Init, OpenBlocks
  <2> QED
    BY <2>1, FS_EmptySet DEF Balance, ScopeBalance
<1>2. Balance => ScopeBalance
  BY DEF Balance
<1> QED
  BY <1>1, <1>2, BalanceStep, ScopesTypeOK, PTL DEF Spec

-----------------------------------------------------------------------------
\* A handle has one place in one scope, and one that a block has cancelled is behind
\* the loop of the only thread that may come to it: none meets it again.

StartedApart ==
    /\ \A t, u \in Threads : \A h \in starting[t] : h \in starting[u] => t = u
    /\ \A t \in Threads, s \in DOMAIN handles : \A h \in starting[t] : ~In(h, s)

OncePlaced ==
    \A s, r \in DOMAIN handles : \A i \in DOMAIN handles[s], j \in DOMAIN handles[r] :
        handles[s][i] = handles[r][j] => s = r /\ i = j

Behind(s, i) == /\ \A k \in DOMAIN scopes : scopes[k] # s
                /\ \A t \in Threads : popped[t] = s => i <= visited[t]

ExpiredBehind ==
    /\ \A h \in expired : \E s \in DOMAIN handles : In(h, s)
    /\ \A s \in DOMAIN handles : \A i \in DOMAIN handles[s] :
          handles[s][i] \in expired => Behind(s, i)

\* What a step does to the handles being registered.
LEMMA StartingSteps ==
    ASSUME TypeOK, [Next]_vars
    PROVE  \/ \A t \in Threads : starting'[t] \subseteq starting[t]
           \/ \E t \in Threads, k \in Tasks : StartTask(t, k)
<1>0. starting \in [Threads -> SUBSET Tasks]
  BY DEF TypeOK
<1>1. CASE starting' = starting
  BY <1>1
<1>2. ASSUME NEW t \in Threads, starting' = [starting EXCEPT ![t] = {}]
      PROVE  \A u \in Threads : starting'[u] \subseteq starting[u]
  BY <1>0, <1>2
<1>3. \A t \in Threads : RegisterTask(t) \/ AddHandle(t) =>
          starting' = starting \/ starting' = [starting EXCEPT ![t] = {}]
  BY DEF RegisterTask, AddHandle
<1> QED
  BY <1>1, <1>2, <1>3 DEF Next, vars, threadVars, EnterBlock, CancelTask, ExitBlock, JoinNext,
     AfterBlock, Finish

LEMMA StartedApartStep ==
    ASSUME TypeOK, StartedFirst, StartedApart, [Next]_vars
    PROVE  StartedApart'
<1>0. /\ starting \in [Threads -> SUBSET Tasks] /\ starting' \in [Threads -> SUBSET Tasks]
      /\ handles \in Seq(Seq(Tasks))
  BY TypeStep DEF TypeOK
<1>1. ASSUME NEW t \in Threads, NEW u \in Threads, NEW h \in starting'[t], h \in starting'[u]
      PROVE  t = u
  <2>1. CASE \A v \in Threads : starting'[v] \subseteq starting[v]
    BY <1>1, <2>1 DEF StartedApart
  <2>2. ASSUME NEW v \in Threads, NEW k \in Tasks, StartTask(v, k) PROVE t = u
    <3>1. /\ starting' = [starting EXCEPT ![v] = {k}]
          /\ \A w \in Threads : k \notin starting[w]
          /\ starting[v] = {}
      BY <2>2 DEF StartTask, StartedFirst, AtStatement, TypeOK
    <3> QED
      BY <1>0, <1>1, <3>1 DEF StartedApart
  <2> QED
    BY <2>1, <2>2, StartingSteps
<1>2. ASSUME NEW t \in Threads, NEW s \in DOMAIN handles', NEW h \in starting'[t], In(h, s)'
      PROVE  FALSE
  <2>1. CASE \A v \in Threads : starting'[v] \subseteq starting[v]
    <3>1. PICK u \in Threads : AddHandle(u) /\ h \in starting[u]
      BY <1>2, <2>1, InBefore DEF StartedApart
    <3>2. u = t
      BY <2>1, <3>1 DEF StartedApart
    <3> QED
      BY <1>0, <3>1, <3>2 DEF AddHandle
  <2>2. ASSUME NEW v \in Threads, NEW k \in Tasks, StartTask(v, k) PROVE FALSE
    <3>1. /\ starting' = [starting EXCEPT ![v] = {k}] /\ handles' = handles
          /\ pc[k] = "off"
      BY <2>2 DEF StartTask
    <3>2. In(h, s) /\ s \in DOMAIN handles
      BY <1>2, <3>1 DEF In
    <3>3. h = k
      BY <1>0, <3>1, <3>2 DEF StartedApart
    <3> QED
      BY <3>1, <3>2, <3>3 DEF StartedFirst
  <2> QED
    BY <2>1, <2>2, StartingSteps
<1> QED
  BY <1>1, <1>2 DEF StartedApart

\* add_handle appends one handle, and leaves all others where they are.
LEMMA AddedLast ==
    ASSUME TypeOK, NEW t \in Threads, AddHandle(t)
    PROVE  \E g \in starting[t] :
              /\ DOMAIN handles' = DOMAIN handles
              /\ \A s \in DOMAIN handles' : \A i \in DOMAIN handles'[s] :
                    \/ i \in DOMAIN handles[s] /\ handles'[s][i] = handles[s][i]
                    \/ s = target[t] /\ i = Len(handles[s]) + 1 /\ handles'[s][i] = g
<1>1. PICK g \in starting[t] : /\ target[t] \in DOMAIN handles
                               /\ handles' = [handles EXCEPT ![target[t]] = Append(@, g)]
                               /\ DOMAIN handles' = DOMAIN handles
  BY Added
<1>2. handles[target[t]] \in Seq(Tasks) /\ handles \in Seq(Seq(Tasks)) /\ g \in Tasks
  BY <1>1 DEF TypeOK
<1>3. handles'[target[t]] = Append(handles[target[t]], g)
  BY <1>1, <1>2
<1>4. \A i \in DOMAIN Append(handles[target[t]], g) :
        \/ i \in DOMAIN handles[target[t]] /\ Append(handles[target[t]], g)[i] = handles[target[t]][i]
        \/ i = Len(handles[target[t]]) + 1 /\ Append(handles[target[t]], g)[i] = g
  <2> DEFINE hs == handles[target[t]]
  <2>1. hs \in Seq(Tasks) /\ g \in Tasks
    BY <1>2
  <2> HIDE DEF hs
  <2>2. DOMAIN Append(hs, g) = 1..(Len(hs) + 1) /\ DOMAIN hs = 1..Len(hs) /\ Len(hs) \in Nat
    BY <2>1
  <2>3. /\ Append(hs, g)[Len(hs) + 1] = g
        /\ \A i \in 1..Len(hs) : Append(hs, g)[i] = hs[i]
    BY <2>1
  <2> QED
    BY <2>2, <2>3 DEF hs
<1>5. \A s \in DOMAIN handles : s # target[t] => handles'[s] = handles[s]
  BY <1>1, <1>2
<1>6. ASSUME NEW s \in DOMAIN handles', NEW i \in DOMAIN handles'[s]
      PROVE  \/ i \in DOMAIN handles[s] /\ handles'[s][i] = handles[s][i]
             \/ s = target[t] /\ i = Len(handles[s]) + 1 /\ handles'[s][i] = g
  <2>1. CASE s = target[t]
    BY <1>3, <1>4, <2>1
  <2>2. CASE s # target[t]
    BY <1>1, <1>5, <2>2
  <2> QED
    BY <2>1, <2>2
<1> QED
  BY <1>1, <1>6

\* Handles are appended only by EnterBlock (an empty scope) and AddHandle.
LEMMA OncePlacedStep ==
    ASSUME TypeOK, StartedApart, OncePlaced, [Next]_vars
    PROVE  OncePlaced'
<1>0. handles \in Seq(Seq(Tasks))
  BY DEF TypeOK
<1>1. CASE handles' = handles
  BY <1>1 DEF OncePlaced
<1>2. ASSUME NEW t \in Threads, EnterBlock(t) PROVE OncePlaced'
  <2>1. handles' = Append(handles, <<>>)
    BY <1>2 DEF EnterBlock
  <2>2. \A s \in DOMAIN handles' : handles'[s] # <<>> => s \in DOMAIN handles /\ handles'[s] = handles[s]
    BY <1>0, <2>1
  <2> QED
    BY <2>2 DEF OncePlaced
<1>3. ASSUME NEW t \in Threads, AddHandle(t) PROVE OncePlaced'
  <2>1. PICK g \in starting[t] :
           /\ DOMAIN handles' = DOMAIN handles
           /\ \A s \in DOMAIN handles' : \A i \in DOMAIN handles'[s] :
                 \/ i \in DOMAIN handles[s] /\ handles'[s][i] = handles[s][i]
                 \/ s = target[t] /\ i = Len(handles[s]) + 1 /\ handles'[s][i] = g
    BY <1>3, AddedLast
  <2>3. \A s \in DOMAIN handles : \A i \in DOMAIN handles[s] : handles[s][i] # g
    BY <2>1 DEF StartedApart, In
  <2> QED
    BY <2>1, <2>3 DEF OncePlaced
<1> QED
  BY <1>1, <1>2, <1>3 DEF Next, vars, StartTask, CancelTask, RegisterTask, ExitBlock,
     JoinNext, AfterBlock, Finish

\* Steps other than these keep the scopes' places, their handles and the loops.
LEMMA LoopsStay ==
    [Next]_vars => \/ UNCHANGED <<handles, scopes, popped, visited, expired>>
                   \/ \E t \in Threads : \/ EnterBlock(t) \/ AddHandle(t) \/ ExitBlock(t)
                                         \/ JoinNext(t) \/ AfterBlock(t)
  BY DEF Next, vars, threadVars, history, StartTask, CancelTask, RegisterTask, Finish

LEMMA ExpiredBehindStep ==
    ASSUME TypeOK, OnePlace, StartedApart, OncePlaced, ExpiredBehind, [Next]_vars
    PROVE  ExpiredBehind'
<1>0. /\ handles \in Seq(Seq(Tasks)) /\ scopes \in Seq(DOMAIN handles)
      /\ popped \in [Threads -> {0} \cup DOMAIN handles] /\ visited \in [Threads -> Nat]
      /\ \A s \in DOMAIN handles : Grown(s) /\ handles[s] \in Seq(Tasks)
  BY HandlesStay DEF TypeOK
<1>1. \A h, s : s \in DOMAIN handles /\ In(h, s) => s \in DOMAIN handles' /\ In(h, s)'
  BY <1>0, InStays DEF Grown
<1>2. CASE UNCHANGED <<handles, scopes, popped, visited, expired>>
  BY <1>2 DEF ExpiredBehind, Behind, In
<1>3. ASSUME NEW t \in Threads, EnterBlock(t) PROVE ExpiredBehind'
  <2>1. /\ handles' = Append(handles, <<>>) /\ scopes' = Append(scopes, Len(handles) + 1)
        /\ UNCHANGED <<popped, visited, expired>>
    BY <1>3 DEF EnterBlock, threadVars
  <2>2. \A s \in DOMAIN handles' : handles'[s] # <<>> =>
            /\ s \in DOMAIN handles /\ handles'[s] = handles[s] /\ s # Len(handles) + 1
    BY <1>0, <2>1
  <2>3. \A k \in DOMAIN scopes' : scopes'[k] = Len(handles) + 1 \/ (k \in DOMAIN scopes /\ scopes'[k] = scopes[k])
    BY <1>0, <2>1
  <2>4. ASSUME NEW s \in DOMAIN handles', NEW i \in DOMAIN handles'[s], handles'[s][i] \in expired'
        PROVE  Behind(s, i)'
    BY <2>1, <2>2, <2>3, <2>4 DEF ExpiredBehind, Behind
  <2> QED
    BY <1>1, <2>1, <2>4 DEF ExpiredBehind
<1>4. ASSUME NEW t \in Threads, AddHandle(t) PROVE ExpiredBehind'
  <2>0. UNCHANGED <<scopes, popped, visited, expired>>
    BY <1>4 DEF AddHandle
  <2>1. PICK g \in starting[t] :
           /\ DOMAIN handles' = DOMAIN handles
           /\ \A s \in DOMAIN handles' : \A i \in DOMAIN handles'[s] :
                 (i \in DOMAIN handles[s] /\ handles'[s][i] = handles[s][i]) \/ handles'[s][i] = g
    BY <1>4, AddedLast
  <2>3. g \notin expired
    BY <2>1 DEF StartedApart, ExpiredBehind
  <2>4. ASSUME NEW s \in DOMAIN handles', NEW i \in DOMAIN handles'[s], handles'[s][i] \in expired'
        PROVE  Behind(s, i)'
    BY <2>0, <2>1, <2>3, <2>4 DEF ExpiredBehind, Behind
  <2> QED
    BY <1>1, <2>0, <2>4 DEF ExpiredBehind
<1>5. ASSUME NEW t \in Threads, ExitBlock(t) PROVE ExpiredBehind'
  <2>1. /\ popped' = [popped EXCEPT ![t] = IF scopes = <<>> THEN 0 ELSE Last(scopes)]
        /\ scopes' = IF scopes = <<>> THEN scopes ELSE Front(scopes)
        /\ UNCHANGED <<handles, expired>> /\ visited' = [visited EXCEPT ![t] = 0]
    BY <1>5 DEF ExitBlock
  <2>2. \A k \in DOMAIN scopes' : k \in DOMAIN scopes /\ scopes'[k] = scopes[k]
    <3>1. CASE scopes = <<>>
      BY <2>1, <3>1
    <3>2. CASE scopes # <<>>
      <4>1. /\ DOMAIN Front(scopes) = 1..(Len(scopes) - 1)
            /\ \A i \in 1..(Len(scopes) - 1) : Front(scopes)[i] = scopes[i]
        BY <1>0, <3>2, FrontType
      <4>2. scopes' = Front(scopes)
        BY <2>1, <3>2
      <4>3. Len(scopes) \in Nat /\ DOMAIN scopes = 1..Len(scopes)
        BY <1>0
      <4>4. 1..(Len(scopes) - 1) \subseteq 1..Len(scopes)
        BY <4>3
      <4> QED
        BY <4>1, <4>2, <4>3, <4>4
    <3> QED
      BY <3>1, <3>2
  <2>3. popped'[t] = 0 \/ \E k \in DOMAIN scopes : popped'[t] = scopes[k]
    BY <1>0, <2>1, FrontType
  <2>4. ASSUME NEW s \in DOMAIN handles', NEW i \in DOMAIN handles'[s], handles'[s][i] \in expired'
        PROVE  Behind(s, i)'
    <3>1. Behind(s, i) /\ s # 0
      BY <1>0, <2>1, <2>4 DEF ExpiredBehind
    <3>2. popped'[t] # s
      BY <2>3, <3>1 DEF Behind
    <3>3. \A u \in Threads \ {t} : popped'[u] = popped[u] /\ visited'[u] = visited[u]
      BY <1>0, <2>1
    <3> QED
      BY <2>2, <3>1, <3>2, <3>3 DEF Behind
  <2> QED
    BY <1>1, <2>1, <2>4 DEF ExpiredBehind
<1>6. ASSUME NEW t \in Threads, JoinNext(t) PROVE ExpiredBehind'
  <2> DEFINE p == popped[t]
             n == visited[t] + 1
             g == handles[p][n]
  <2>0. /\ p \in DOMAIN handles /\ n \in DOMAIN handles[p] /\ p # 0 /\ n \in Nat
        /\ UNCHANGED <<handles, scopes>>
        /\ JoinTimesOut(t, g) \/ JoinSucceeds(t, g) \/ JoinRaises(t, g)
    BY <1>0, <1>6, NextHandle DEF JoinNext
  <2>1. expired' = expired \/ (expired' = expired \cup {g} /\ visited' = [visited EXCEPT ![t] = n] /\ popped' = popped)
    BY <2>0 DEF JoinTimesOut, JoinSucceeds, JoinRaises
  <2>2. \A u \in Threads : /\ popped'[u] = 0 \/ popped'[u] = popped[u]
                           /\ visited'[u] >= visited[u]
    <3>1. \/ popped' = popped /\ visited' = [visited EXCEPT ![t] = @ + 1]
          \/ popped' = [popped EXCEPT ![t] = 0] /\ visited' = visited
      BY <2>0 DEF JoinTimesOut, JoinSucceeds, JoinRaises
    <3>2. visited \in [Threads -> Nat] /\ popped \in [Threads -> {0} \cup DOMAIN handles]
      BY <1>0
    <3> HIDE DEF p, n, g
    <3> QED
      BY <3>1, <3>2
  <2>3. ASSUME NEW s \in DOMAIN handles, NEW i \in DOMAIN handles[s], handles[s][i] \in expired'
        PROVE  Behind(s, i)'
    <3>1. CASE handles[s][i] \in expired
      <4>1. Behind(s, i) /\ s # 0 /\ i \in Nat
        BY <1>0, <3>1 DEF ExpiredBehind
      <4>2. \A u \in Threads : popped'[u] = s => i <= visited'[u]
        <5> TAKE u \in Threads
        <5> HAVE popped'[u] = s
        <5>1. popped[u] = s /\ i <= visited[u]
          BY <2>2, <4>1 DEF Behind
        <5>2. visited[u] \in Nat /\ visited'[u] \in Nat
          BY <1>0, TypeStep DEF TypeOK
        <5> QED
          BY <2>2, <4>1, <5>1, <5>2
      <4> QED
        BY <2>0, <4>1, <4>2 DEF Behind
    <3>2. CASE handles[s][i] \notin expired
      <4>1. /\ handles[s][i] = g /\ visited' = [visited EXCEPT ![t] = n] /\ popped' = popped
        BY <2>1, <2>3, <3>2
      <4>2. s = p /\ i = n
        BY <2>0, <4>1 DEF OncePlaced
      <4>3. \A u \in Threads : popped[u] = p => u = t
        BY <2>0 DEF OnePlace
      <4>4. \A k \in DOMAIN scopes : scopes[k] # p
        BY DEF OnePlace
      <4> HIDE DEF p, n, g
      <4> QED
        BY <1>0, <2>0, <4>1, <4>2, <4>3, <4>4 DEF Behind
    <3> QED
      BY <3>1, <3>2
  <2>4. \A h \in expired' : \E s \in DOMAIN handles : In(h, s)
    <3>1. In(g, p)
      BY <2>0 DEF In
    <3> QED
      BY <2>0, <2>1, <3>1 DEF ExpiredBehind
  <2>5. \A h \in expired' : \E s \in DOMAIN handles' : In(h, s)'
    BY <1>1, <2>4
  <2> QED
    BY <2>0, <2>3, <2>5 DEF ExpiredBehind
<1>7. ASSUME NEW t \in Threads, AfterBlock(t) PROVE ExpiredBehind'
  <2>1. /\ popped' = [popped EXCEPT ![t] = 0] /\ visited' = [visited EXCEPT ![t] = 0]
        /\ UNCHANGED <<handles, scopes, expired>>
    BY <1>7 DEF AfterBlock
  <2>2. \A u \in Threads : popped'[u] = 0 \/ (popped'[u] = popped[u] /\ visited'[u] = visited[u])
    BY <1>0, <2>1
  <2>3. \A s \in DOMAIN handles : s # 0
    BY <1>0
  <2>4. \A s \in DOMAIN handles : \A i \in DOMAIN handles[s] : Behind(s, i) => Behind(s, i)'
    BY <2>1, <2>2, <2>3 DEF Behind
  <2>5. \A h \in expired' : \E s \in DOMAIN handles' : In(h, s)'
    BY <1>1, <2>1 DEF ExpiredBehind
  <2> QED
    BY <2>1, <2>4, <2>5 DEF ExpiredBehind
<1> QED
  BY <1>2, <1>3, <1>4, <1>5, <1>6, <1>7, LoopsStay

\* The step that leaves a loop early raises the error of the handle it has come to.
LEMMA OnlyRaises ==
    ASSUME TypeOK, [Next]_vars, NEW t \in Threads,
           pc'[t] = "exit", popped[t] # 0, popped'[t] = 0
    PROVE  JoinNext(t)
<1>0. /\ popped \in [Threads -> {0} \cup DOMAIN handles] /\ pc[t] = "exit"
      /\ pc \in [Threads -> {"off", "run", "register", "add", "exit", "done"}]
  BY DEF TypeOK
<1>1. ASSUME NEW u \in Threads, ExitBlock(u) PROVE FALSE
  BY <1>0, <1>1 DEF ExitBlock
<1>2. ASSUME NEW u \in Threads, JoinNext(u) PROVE u = t
  BY <1>0, <1>2 DEF JoinNext, JoinTimesOut, JoinSucceeds, JoinRaises
<1>3. ASSUME NEW u \in Threads, AfterBlock(u) PROVE FALSE
  BY <1>0, <1>3 DEF AfterBlock, ThreadGoes
<1> QED
  BY <1>1, <1>2, <1>3 DEF Next, vars, threadVars, EnterBlock, StartTask, CancelTask, RegisterTask,
     AddHandle, Finish

\* No block ends with the error of a task that a block has cancelled after its own
\* timeout, whichever threads pop, join and cancel.
THEOREM ScopesNoTimeoutRaises == Spec => NoTimeoutRaises
<1> DEFINE Inv == StartedFirst /\ StartedApart /\ OncePlaced /\ ExpiredBehind
<1>1. Init => Inv
  BY DEF Init, StartedFirst, StartedApart, OncePlaced, ExpiredBehind, In
<1>2. IInv /\ Inv /\ [Next]_vars => Inv'
  BY StartedStep, StartedApartStep, OncePlacedStep, ExpiredBehindStep DEF IInv
<1>3. IInv /\ Inv /\ [Next]_vars =>
        [\A t \in Threads :
            pc'[t] = "exit" /\ popped[t] # 0 /\ popped'[t] = 0
                => handles[popped[t]][visited[t] + 1] \notin expired]_vars
  <2> SUFFICES ASSUME IInv, Inv, [Next]_vars, NEW t \in Threads,
                      pc'[t] = "exit", popped[t] # 0, popped'[t] = 0
               PROVE  handles[popped[t]][visited[t] + 1] \notin expired
    OBVIOUS
  <2>1. /\ popped[t] \in DOMAIN handles /\ visited[t] + 1 \in DOMAIN handles[popped[t]]
        /\ visited[t] \in Nat
    BY OnlyRaises, NextHandle DEF IInv, TypeOK
  <2>2. handles[popped[t]][visited[t] + 1] \in expired => visited[t] + 1 <= visited[t]
    BY <2>1 DEF ExpiredBehind, Behind
  <2> QED
    BY <2>1, <2>2
<1> QED
  BY <1>1, <1>2, <1>3, ScopesInvariant, PTL DEF Spec, NoTimeoutRaises
=============================================================================
